---- MODULE Spec2Model ----
(***************************************************************************)
(* A model of the hybrid-voice-satellite server: the hub-side (Wyoming)    *)
(* TCP server of src/server/wyoming_server.py, the browser-side WebSocket  *)
(* server of src/server/websocket_server.py and the shutdown sequence of   *)
(* src/server/main.py.                                                     *)
(*                                                                         *)
(* Bytes of the hub wire protocol are modelled as tokens: one token is one *)
(* byte of the stream.  A JSON object is "{" field-tokens "}".             *)
(***************************************************************************)
EXTENDS Integers, Sequences, FiniteSets, TLC

\* ------------------------------------------------------------------ bytes
NL == "nl"
SP == " "
LB == "{"
RB == "}"
BadUtf8 == "xff"          \* a byte that is not valid UTF-8

TypeTok == {"ping", "describe", "audio-start", "audio-chunk", "audio",
            "audio-stop", "run_pipeline", "zzz"}
RateTok == {"r16000", "r22050"}
DlenTok == {"D1", "D2", "D3"}
PlenTok == {"P1", "P2", "P3"}
HexTok == {"hexok", "hexbad"}  \* a 'data' field holding a string: valid hex or not
FieldTok == TypeTok \cup RateTok \cup HexTok \cup DlenTok \cup PlenTok

LenOf(tok) ==
    CASE tok \in {"D1", "P1"} -> 1
      [] tok \in {"D2", "P2"} -> 2
      [] tok \in {"D3", "P3"} -> 3
      [] OTHER -> 0

\* ---------------------------------------------------------------- bounds
MaxFrames == 2
MaxHubMsgs == 4     \* messages the hub peers send, all connections together
MaxClientMsgs == 2  \* frames the browser peers send, all connections together

\* ------------------------------------------------------------- variables
Hubs == {"h1", "h2"}        \* hub connections (one StreamWriter each)
Clients == {"c1", "c2"}     \* browser connections (one websocket each)
CodecHub == "h1"            \* the hub connection whose bytes are modelled

VARIABLES
    sent,        \* the frames the hub peer wrote on CodecHub (the input)
    stream,      \* bytes of CodecHub not yet read by the read loop
    line,        \* decoded_line of CodecHub's read loop
    pos,         \* pos of the per-line object scan (1-based)
    hubPc,       \* per hub connection: "free" (not accepted yet), "readline",
                 \* "scan" (inside the per-line scan), "closed"
    hubIn,       \* per hub: the messages passed to handle_message, in order
    hubOut,      \* per hub: what was written to its StreamWriter, in order
    ha_writers,  \* WyomingServer.ha_writers
    client_tasks,\* WyomingServer.client_tasks (a task is named by its hub)
    broken,      \* connections whose peer reset them: a send on them raises
    clients,     \* WebSocketServer.clients
    clientPc,    \* per browser connection: "free", "auth", "active", "closed"
    clientOut,   \* per browser connection: the frames sent to it, in order
    joinedAt,    \* history: per browser connection, how many messages each hub
                 \* connection had dispatched when it was registered
    closeCode,   \* per browser connection: the code of websocket.close(code),
                 \* 0 when the handler has not closed it
    auth_token,  \* WebSocketServer.auth_token, "none" for None
    listening,   \* the listeners that accept: "wyoming" (self.server of
                 \* WyomingServer), "ws" (self.server of WebSocketServer)
    todo,        \* per browser connection: the writers of the broadcast loop
                 \* it is in (for writer in list(self.ha_writers)) not yet
                 \* reached
    cur,         \* per browser connection: the writer whose header it has
                 \* written in send_audio, "none" outside
    bcastLog,    \* history: per browser connection, its broadcasts so far,
                 \* each with its kind and its list(self.ha_writers)
    failedSend,  \* history: the writers on which a send of send_audio raised
    firstMsg,    \* history: per browser connection, what authenticate got
                 \* from its wait for the first message, "none" before
    stopPc,      \* where main's shutdown sequence is: "run" before it, then
                 \* the await it is at, "done" after it
    stopLog,     \* history: what the two stop() did so far, in order
    cancelled,   \* the tasks stop() cancelled and gathers, not yet finished
    stalled,     \* connections whose peer stopped reading: a send on them
                 \* waits in drain and does not return
    rs           \* one call of resample_audio: its arguments, what the
                 \* polyphase filter gave, and the bytes it returned

codecVars == <<sent, stream, line, pos>>
hubVars == <<hubPc, hubIn, hubOut, ha_writers, client_tasks>>
clientReg == <<clients, clientPc, joinedAt, closeCode>>
clientVars == <<clientReg, clientOut>>
envVars == <<broken, listening, auth_token>>
micVars == <<todo, cur, bcastLog, failedSend>>
ctlVars == <<firstMsg, stopPc, stopLog, cancelled, stalled, rs>>
vars == <<codecVars, hubVars, clientVars, envVars, micVars, ctlVars>>

\* ------------------------------------------------------- sequence helpers
RECURSIVE Find(_, _, _)
\* str.find(ch, p): the first index >= p holding ch, 0 when there is none
Find(s, ch, p) ==
    IF p > Len(s) THEN 0
    ELSE IF s[p] = ch THEN p
    ELSE Find(s, ch, p + 1)

RECURSIVE SkipSpace(_, _)
SkipSpace(s, p) ==
    IF p <= Len(s) /\ s[p] \in {SP, NL} THEN SkipSpace(s, p + 1) ELSE p

RECURSIVE SkipSpaceBack(_, _)
SkipSpaceBack(s, p) ==
    IF p >= 1 /\ s[p] \in {SP, NL} THEN SkipSpaceBack(s, p - 1) ELSE p

\* str.strip()
Strip(s) ==
    LET a == SkipSpace(s, 1)
        b == SkipSpaceBack(s, Len(s))
    IN  IF a > b THEN <<>> ELSE SubSeq(s, a, b)

\* bytes.decode('utf-8', errors='ignore'): invalid bytes are dropped
Utf8Ignore(s) == SelectSeq(s, LAMBDA t : t # BadUtf8)

Range(s) == {s[i] : i \in 1..Len(s)}

\* the one token of class K among the fields, or "none"
FieldOf(fields, K) ==
    IF Range(fields) \cap K = {} THEN "none"
    ELSE CHOOSE t \in Range(fields) \cap K : TRUE

\* --------------------------------------------------------------- JSON
\* json.JSONDecoder.raw_decode(s, p) at an s[p] = "{": one object is parsed
\* up to its closing brace and the offset after it is returned; anything that
\* is not a field before the brace closes is a JSONDecodeError.
\* message['data'] is "none" (absent), a rate token (a dict with that rate),
\* "empty" (a dict without a rate) or a hex token (a string).
RawDecode(s, p) ==
    LET e == Find(s, RB, p)
        fields == IF e = 0 THEN <<>> ELSE SubSeq(s, p + 1, e - 1)
        oneEach == \A K \in {TypeTok, RateTok \cup HexTok, DlenTok, PlenTok} :
                      Cardinality({i \in 1..Len(fields) : fields[i] \in K}) <= 1
    IN  IF e # 0 /\ s[p] = LB /\ Range(fields) \subseteq FieldTok /\ oneEach
        THEN [ok |-> TRUE, idx |-> e + 1,
              msg |-> [type |-> FieldOf(fields, TypeTok),
                       data |-> FieldOf(fields, RateTok \cup HexTok),
                       data_length |-> LenOf(FieldOf(fields, DlenTok)),
                       payload_length |-> LenOf(FieldOf(fields, PlenTok))]]
        ELSE [ok |-> FALSE, idx |-> p,
              msg |-> [type |-> "none", data |-> "none",
                       data_length |-> 0, payload_length |-> 0]]

\* json.loads(data_bytes): the whole block is one JSON value.  "dict" with
\* the object's data field, "other" for a value that is not an object ("0"),
\* "error" for a JSONDecodeError.
JsonLoads(b) ==
    LET t == Strip(b)
        d == IF t # <<>> /\ t[1] = LB THEN RawDecode(t, 1) ELSE RawDecode(<<>>, 1)
    IN  IF BadUtf8 \in Range(b) THEN [kind |-> "error", data |-> "none"]
        ELSE IF t = <<"0">> THEN [kind |-> "other", data |-> "none"]
        ELSE IF d.ok /\ d.idx = Len(t) + 1
             THEN [kind |-> "dict", data |-> d.msg.data]
        ELSE [kind |-> "error", data |-> "none"]

\* ------------------------------------------------------ handle_message
DefaultRate == 22050
RateOf_FirstFormat(tok) == 22050

RateOf(tok) == IF tok = "r16000" THEN 16000 ELSE 22050

Pong == [type |-> "pong"]
Played == [type |-> "played"]
Attribution ==
    [name |-> "Hybrid Voice Satellite",
     url |-> "https://github.com/emme/hybrid-voice-satellite"]

\* the handshake written on accept
Satellite ==
    [type |-> "satellite", name |-> "self.name", area |-> "None",
     description |-> "Hybrid Voice Satellite", attribution |-> Attribution,
     installed |-> TRUE, version |-> "0.1.0",
     capabilities |-> <<"wake_word", "audio_input", "audio_output">>,
     snd_format |-> [rate |-> 22050, width |-> 2, channels |-> 1]]

\* the reply to describe: data.satellite holds the identity fields (here
\* beside the fields of data itself: nickname and components)
Info_PerReply ==
    [type |-> "info", nickname |-> "self.name", name |-> "self.name",
     area |-> "Office", description |-> "Hybrid Voice Satellite",
     attribution |-> [name |-> "Hybrid Voice Satellite",
                      url |-> "https://github.com/emme/hybrid-voice-satellite"],
     installed |-> TRUE, version |-> "0.1.0", components |-> <<>>,
     capabilities |-> <<"wake_word", "audio_input", "audio_output">>,
     snd_format |-> [rate |-> 22050 + Len(hubIn["h1"]), width |-> 2, channels |-> 1]]

Info ==
    [type |-> "info", nickname |-> "self.name", name |-> "self.name",
     area |-> "Office", description |-> "Hybrid Voice Satellite",
     attribution |-> Attribution,
     installed |-> TRUE, version |-> "0.1.0", components |-> <<>>,
     capabilities |-> <<"wake_word", "audio_input", "audio_output">>,
     snd_format |-> [rate |-> 22050, width |-> 2, channels |-> 1]]

\* the frames a browser connection is sent; src is the hub connection whose
\* message caused the frame (a history field, not on the wire)
AudioStartNote_DefaultRate(rate, h) ==
    [type |-> "audio_start", rate |-> DefaultRate, src |-> h]

AudioStartNote(rate, h) == [type |-> "audio_start", rate |-> rate, src |-> h]
Binary(bytes, h) == [type |-> "binary", data |-> bytes, src |-> h]

\* what audio-stop is answered with
StopReply_Nothing == <<>>

StopReply == <<Played>>

\* what handle_message does with a message without a type (return) or of a
\* type that no branch of it names
Ignored_Fatal == [raises |-> TRUE, reply |-> <<>>, cast |-> <<>>]

Ignored == [raises |-> FALSE, reply |-> <<>>, cast |-> <<>>]

\* handle_message(message, payload, writer) as what it does:
\*   raises : an exception leaves handle_message before anything is written
\*   reply  : the messages written with send_json(writer, ...)
\*   cast   : the frames handed to on_tts_start / on_tts_audio
\* A message is [type, data, payload]; payload <<>> is None.
HandleMessage(m, h) ==
    LET none == [raises |-> FALSE, reply |-> <<>>, cast |-> <<>>]
        fromhex == IF m.data = "hexok" THEN <<"hx">> ELSE <<>>
        audio_bytes == IF m.payload # <<>> THEN m.payload
                       ELSE IF m.data \in {"none", "empty"} THEN <<>>
                       ELSE fromhex
    IN  CASE m.type = "none" -> Ignored
          [] m.type = "ping" -> [none EXCEPT !.reply = <<Pong>>]
          [] m.type = "describe" -> [none EXCEPT !.reply = <<Info>>]
          [] m.type = "audio-start" ->
                IF m.data \in HexTok THEN [none EXCEPT !.raises = TRUE]
                ELSE [none EXCEPT !.cast =
                        <<AudioStartNote(IF m.data \in RateTok THEN RateOf(m.data)
                                         ELSE DefaultRate, h)>>]
          [] m.type \in {"audio", "audio-chunk"} ->
                IF m.payload = <<>> /\ m.data \in RateTok \cup {"hexbad"}
                THEN [none EXCEPT !.raises = TRUE]
                ELSE IF audio_bytes # <<>>
                     THEN [none EXCEPT !.cast = <<Binary(audio_bytes, h)>>]
                ELSE none
          [] m.type = "audio-stop" -> [none EXCEPT !.reply = StopReply]
          [] m.type = "run_pipeline" -> none
          [] OTHER -> Ignored

\* --------------------------------------------------- hub connection steps
\* the finally block of handle_client: the writer and the task leave the
\* registries and the socket is closed
Cleanup_ClearsRegistry(h) ==
    /\ hubPc' = [hubPc EXCEPT ![h] = "closed"]
    /\ ha_writers' = {}
    /\ client_tasks' = client_tasks \ {h}

Cleanup_KeepsTask(h) ==
    /\ hubPc' = [hubPc EXCEPT ![h] = "closed"]
    /\ ha_writers' = ha_writers \ {h}
    /\ client_tasks' = client_tasks

Cleanup(h) ==
    /\ hubPc' = [hubPc EXCEPT ![h] = "closed"]
    /\ ha_writers' = ha_writers \ {h}
    /\ client_tasks' = client_tasks \ {h}

\* await self.handle_message(message, payload, writer) and what follows it
\* in the read loop: the replies go to this writer (send_json raises on a
\* reset connection), the TTS frames to every registered browser connection
\* (gather(..., return_exceptions=True) swallows a failed send); an exception
\* ends the handler through its finally block, otherwise the loop goes on at
\* pcAfter.  The gather returns when every send has: with a registered
\* connection that does not drain the read loop waits in it ("cast_wait").
\* the replies written ahead of what the link already carries
DispatchStep_ReplyFirst(h, m, pcAfter) ==
    LET r == HandleMessage(m, h)
        fails == r.raises \/ (r.reply # <<>> /\ h \in broken)
        waits == r.cast # <<>> /\ (clients \ broken) \cap stalled # {}
    IN  /\ hubIn' = [hubIn EXCEPT ![h] = Append(@, m)]
        /\ hubOut' = IF fails THEN hubOut
                     ELSE [hubOut EXCEPT ![h] = r.reply \o @]
        /\ clientOut' = [c \in Clients |->
                            IF c \in clients \ (broken \cup stalled)
                            THEN clientOut[c] \o r.cast ELSE clientOut[c]]
        /\ IF fails THEN Cleanup(h)
           ELSE /\ hubPc' = [hubPc EXCEPT ![h] = IF waits THEN "cast_wait" ELSE pcAfter]
                /\ UNCHANGED <<ha_writers, client_tasks>>

DispatchStep(h, m, pcAfter) ==
    LET r == HandleMessage(m, h)
        fails == r.raises \/ (r.reply # <<>> /\ h \in broken)
        waits == r.cast # <<>> /\ (clients \ broken) \cap stalled # {}
    IN  /\ hubIn' = [hubIn EXCEPT ![h] = Append(@, m)]
        /\ hubOut' = IF fails THEN hubOut
                     ELSE [hubOut EXCEPT ![h] = @ \o r.reply]
        /\ clientOut' = [c \in Clients |->
                            IF c \in clients \ (broken \cup stalled)
                            THEN clientOut[c] \o r.cast ELSE clientOut[c]]
        /\ IF fails THEN Cleanup(h)
           ELSE /\ hubPc' = [hubPc EXCEPT ![h] = IF waits THEN "cast_wait" ELSE pcAfter]
                /\ UNCHANGED <<ha_writers, client_tasks>>

\* asyncio.start_server accepts a connection and runs handle_client up to its
\* first await: the task and the writer are registered and the handshake is
\* written
HubAccept_RegistersFirst(h) ==
    /\ hubPc[h] = "free"
    /\ "wyoming" \in listening
    /\ hubPc' = [hubPc EXCEPT ![h] = "readline"]
    /\ ha_writers' = ha_writers \cup {h}
    /\ client_tasks' = client_tasks \cup {h}
    /\ UNCHANGED <<ctlVars, codecVars, hubIn, hubOut, clientVars, envVars, micVars>>

HubAccept(h) ==
    /\ hubPc[h] = "free"
    /\ "wyoming" \in listening
    /\ IF h \in broken
       THEN /\ hubPc' = [hubPc EXCEPT ![h] = "closed"]
            /\ UNCHANGED <<ha_writers, client_tasks, hubOut>>
       ELSE /\ hubPc' = [hubPc EXCEPT ![h] = "readline"]
            /\ ha_writers' = ha_writers \cup {h}
            /\ client_tasks' = client_tasks \cup {h}
            /\ hubOut' = [hubOut EXCEPT ![h] = Append(@, Satellite)]
    /\ UNCHANGED <<ctlVars, codecVars, hubIn, clientVars, envVars, micVars>>

\* ------------------------------------------------- the byte-level read loop
\* await reader.readexactly(n): the next n bytes whatever they are; fewer
\* before EOF is an IncompleteReadError (ok FALSE) that leaves nothing unread
ReadExactly_ToNewline(strm, n) ==
    LET k == Find(strm, NL, 1)
        m == IF k # 0 /\ k < n THEN k ELSE n
    IN  IF Len(strm) >= m
        THEN [ok |-> TRUE, data |-> SubSeq(strm, 1, m),
              rest |-> SubSeq(strm, m + 1, Len(strm))]
        ELSE [ok |-> FALSE, data |-> <<>>, rest |-> <<>>]

\* reader.read(n) in the place of readexactly: what is there, without error
ReadExactly_Partial(strm, n) ==
    LET m == IF Len(strm) >= n THEN n ELSE Len(strm)
    IN  [ok |-> TRUE, data |-> SubSeq(strm, 1, m), rest |-> SubSeq(strm, m + 1, Len(strm))]

ReadExactly(strm, n) ==
    IF Len(strm) >= n
    THEN [ok |-> TRUE, data |-> SubSeq(strm, 1, n),
          rest |-> SubSeq(strm, n + 1, Len(strm))]
    ELSE [ok |-> FALSE, data |-> <<>>, rest |-> <<>>]

\* the position of the object to parse: here when a "{" is here, else the
\* next "{" of the line (decoded_line.find), or 0 when the line has none
NextBrace_NoResync(l, p1) == IF l[p1] # LB THEN 0 ELSE p1

NextBrace(l, p1) == IF l[p1] # LB THEN Find(l, LB, p1) ELSE p1

\* except json.JSONDecodeError: pos += 1
SkipTo_Stay(p2) == p2

SkipTo(p2) == p2 + 1

\* One iteration of the per-line scan (while pos < len(decoded_line)) up to
\* the call of handle_message, as what it leaves behind:
\*   kind "break"  the scan of this line ends
\*        "skip"   a JSONDecodeError at a "{": pos moves on by one
\*        "fatal"  a truncated or invalid data/payload block: return
\*        "msg"    msg is passed to handle_message
ScanIter(l, p, strm) ==
    LET p1 == SkipSpace(l, p)
        p2 == IF p1 > Len(l) THEN 0 ELSE NextBrace(l, p1)
        d == IF p2 = 0 THEN RawDecode(<<>>, 1) ELSE RawDecode(l, p2)
        dl == d.msg.data_length
        pl == d.msg.payload_length
        rd == ReadExactly(strm, dl)
        haveData == rd.ok
        block == rd.data
        obj == JsonLoads(block)
        s1 == rd.rest
        \* message['data'] after the merge of the data block
        data1 == IF dl = 0 THEN d.msg.data
                 ELSE IF obj.kind = "dict" /\ obj.data # "none" THEN obj.data
                 ELSE IF d.msg.data = "none" THEN "empty"
                 ELSE d.msg.data
        \* str has no update(): a hex 'data' field with a dict data block
        badMerge == dl > 0 /\ obj.kind = "dict" /\ d.msg.data \in HexTok
        rp == ReadExactly(s1, pl)
        havePayload == rp.ok
        payload == rp.data
        s2 == rp.rest
        nomsg == [type |-> "none", data |-> "none", payload |-> <<>>]
    IN  IF p2 = 0 THEN [kind |-> "break", pos |-> p, stream |-> strm, msg |-> nomsg]
        ELSE IF ~d.ok THEN [kind |-> "skip", pos |-> SkipTo(p2), stream |-> strm, msg |-> nomsg]
        ELSE IF dl > 0 /\ (~haveData \/ obj.kind = "error" \/ badMerge)
             THEN [kind |-> "fatal", pos |-> d.idx, stream |-> s1, msg |-> nomsg]
        ELSE IF pl > 0 /\ ~havePayload
             THEN [kind |-> "fatal", pos |-> d.idx, stream |-> s2, msg |-> nomsg]
        ELSE [kind |-> "msg", pos |-> d.idx, stream |-> s2,
              msg |-> [type |-> d.msg.type, data |-> data1, payload |-> payload]]

\* line = await reader.readline(), the EOF test, decode and strip
ReadLine ==
    /\ hubPc[CodecHub] = "readline"
    /\ IF stream = <<>>
       THEN /\ Cleanup(CodecHub)
            /\ UNCHANGED <<stream, line, pos>>
       ELSE LET k == Find(stream, NL, 1)
                raw == IF k = 0 THEN stream ELSE SubSeq(stream, 1, k)
                decoded_line == Strip(Utf8Ignore(raw))
            IN  /\ stream' = SubSeq(stream, Len(raw) + 1, Len(stream))
                /\ line' = decoded_line
                /\ pos' = 1
                /\ hubPc' = [hubPc EXCEPT ![CodecHub] =
                                IF decoded_line = <<>> THEN "readline" ELSE "scan"]
                /\ UNCHANGED <<ha_writers, client_tasks>>
    /\ UNCHANGED <<ctlVars, sent, hubIn, hubOut, clientVars, envVars, micVars>>

\* one iteration of the per-line scan, with the dispatch of its message
Scan ==
    /\ hubPc[CodecHub] = "scan"
    /\ LET r == ScanIter(line, pos, stream)
           after == IF r.pos <= Len(line) THEN "scan" ELSE "readline"
       IN  /\ pos' = r.pos
           /\ stream' = r.stream
           /\ CASE r.kind = "break" ->
                     /\ hubPc' = [hubPc EXCEPT ![CodecHub] = "readline"]
                     /\ UNCHANGED <<hubIn, hubOut, ha_writers, client_tasks, clientOut>>
                [] r.kind = "skip" ->
                     /\ hubPc' = [hubPc EXCEPT ![CodecHub] = after]
                     /\ UNCHANGED <<hubIn, hubOut, ha_writers, client_tasks, clientOut>>
                [] r.kind = "fatal" ->
                     /\ Cleanup(CodecHub)
                     /\ UNCHANGED <<hubIn, hubOut, clientOut>>
                [] OTHER -> DispatchStep(CodecHub, r.msg, after)
    /\ UNCHANGED <<ctlVars, sent, line, clientReg, envVars, micVars>>

\* ------------------------------------------- message-level hub steps
RECURSIVE SumLen(_, _)
SumLen(f, S) ==
    IF S = {} THEN 0
    ELSE LET x == CHOOSE y \in S : TRUE IN Len(f[x]) + SumLen(f, S \ {x})

Count(s, x) == Cardinality({i \in 1..Len(s) : s[i] = x})
CountType(s, t) == Cardinality({i \in 1..Len(s) : s[i].type = t})

\* n bytes of 16-bit PCM
Pcm(n) == [i \in 1..n |-> "pcm"]

MsgPing == [type |-> "ping", data |-> "none", payload |-> <<>>]
MsgStop == [type |-> "audio-stop", data |-> "none", payload |-> <<>>]
MsgStart(r) == [type |-> "audio-start", data |-> r, payload |-> <<>>]
MsgChunk(bytes) == [type |-> "audio-chunk", data |-> "none", payload |-> bytes]

\* what a hub peer sends on the TTS path; its chunks grow by one byte, so
\* that no two chunks of a connection are alike
\* (h1 runs sessions at 16000 Hz, the other connections only stream chunks)
TtsMsgs(h) ==
    {MsgChunk(Pcm(1 + CountType(hubIn[h], "audio-chunk")))}
    \cup (IF h = CodecHub THEN {MsgStart("r16000"), MsgStop} ELSE {})

\* one turn of the read loop on a line that holds one well-formed frame:
\* readline, the scan, the data and payload reads, handle_message
HubRecv(h) ==
    /\ hubPc[h] = "readline"
    /\ SumLen(hubIn, Hubs) < MaxHubMsgs
    /\ \E m \in TtsMsgs(h) : DispatchStep(h, m, "readline")
    /\ UNCHANGED <<ctlVars, codecVars, clientReg, envVars, micVars>>

\* readline returns b"" (EOF) or raises ConnectionResetError: break, finally
HubEOF(h) ==
    /\ hubPc[h] = "readline"
    /\ Cleanup(h)
    /\ UNCHANGED <<ctlVars, codecVars, hubIn, hubOut, clientVars, envVars, micVars>>

\* the peer of a connection resets it: from now on a send on it raises
\* (one fault: no second connection is reset)
Break(x) ==
    /\ broken = {}
    /\ (x \in Hubs => hubPc[x] # "closed")
    /\ (x \in Clients => clientPc[x] # "closed")
    /\ broken' = broken \cup {x}
    /\ UNCHANGED <<ctlVars, codecVars, hubVars, clientVars, listening, auth_token, micVars>>

\* ---------------------------------------------- browser connection steps
\* register_client
Register(c) ==
    /\ clients' = clients \cup {c}
    /\ clientPc' = [clientPc EXCEPT ![c] = "active"]
    /\ joinedAt' = [joinedAt EXCEPT ![c] = [h \in Hubs |-> Len(hubIn[h])]]

\* websockets.serve accepts a connection and runs handler up to its first
\* await: without a token the connection is registered at once, with one the
\* handler waits in authenticate
ClientAccept(c) ==
    /\ clientPc[c] = "free"
    /\ "ws" \in listening
    /\ IF auth_token = "none"
       THEN Register(c)
       ELSE /\ clientPc' = [clientPc EXCEPT ![c] = "auth"]
            /\ UNCHANGED <<clients, joinedAt>>
    /\ UNCHANGED <<ctlVars, codecVars, hubVars, clientOut, closeCode, envVars, micVars>>

\* the connection is closed by its peer: the async for ends (ConnectionClosed)
\* and the finally block unregisters it
ClientClose(c) ==
    /\ clientPc[c] = "active"
    /\ clients' = clients \ {c}
    /\ clientPc' = [clientPc EXCEPT ![c] = "closed"]
    /\ UNCHANGED <<ctlVars, codecVars, hubVars, clientOut, joinedAt, closeCode, envVars, micVars>>

\* ------------------------------------------------------- authentication
\* A text frame of a browser is "{" field-tokens "}": a type field, a token
\* field.  "[]" is a JSON value that is not an object.
WsTypeTok == {"t:auth", "t:ping", "t:status_request", "t:zzz"}
WsKeyTok == {"k:secret", "k:wrong"}

\* json.loads(message) of a text frame: "dict" with its type and token
\* ("none" for a key that is absent, as data.get gives None), "other" for a
\* value that is not an object, "error" for a JSONDecodeError
WsLoads(text) ==
    LET n == Len(text)
        fields == IF n >= 2 THEN SubSeq(text, 2, n - 1) ELSE <<>>
        oneEach == \A K \in {WsTypeTok, WsKeyTok} :
                      Cardinality({i \in 1..Len(fields) : fields[i] \in K}) <= 1
    IN  IF text = <<"[]">> THEN [kind |-> "other", type |-> "none", token |-> "none"]
        ELSE IF /\ n >= 2 /\ text[1] = LB /\ text[n] = RB
                /\ Range(fields) \subseteq WsTypeTok \cup WsKeyTok /\ oneEach
        THEN [kind |-> "dict", type |-> FieldOf(fields, WsTypeTok),
              token |-> FieldOf(fields, WsKeyTok)]
        ELSE [kind |-> "error", type |-> "none", token |-> "none"]

\* data.get('type') == 'auth' and data.get('token') == self.auth_token
TokenMatches_TypeOnly(data, token) == data.type = "t:auth"

TokenMatches(data, token) == data.type = "t:auth" /\ data.token = token

\* what the wait for the first message ends with: the 5 s run out, the peer
\* closed the connection, or a frame
AuthFrames ==
    { <<LB, "t:auth", "k:secret", RB>>, <<LB, "k:secret", "t:auth", RB>>,
      <<LB, "t:auth", "k:wrong", RB>>, <<LB, "t:auth", RB>>,
      <<LB, "k:secret", RB>>, <<LB, "t:ping", "k:secret", RB>>,
      <<LB, RB>>, <<LB, "t:auth", "k:secret">>, <<"[]">>, <<>> }

AuthEvents ==
    {[kind |-> "timeout"], [kind |-> "closed"]}
        \cup {[kind |-> "frame", text |-> t] : t \in AuthFrames}

\* authenticate: True only past the send of auth_ok; every exception (the
\* timeout, a closed connection, a JSONDecodeError, data.get on a value
\* that is not a dict, a send that raises) is False
Authenticate(c, ev) ==
    LET data == IF ev.kind = "frame" THEN WsLoads(ev.text)
                ELSE [kind |-> "error", type |-> "none", token |-> "none"]
        match == data.kind = "dict" /\ TokenMatches(data, "k:" \o auth_token)
        sends == data.kind = "dict" /\ c \notin broken
    IN  [ok |-> match /\ sends,
         out |-> IF ~sends THEN <<>>
                 ELSE IF match THEN <<[type |-> "auth_ok", src |-> "ws"]>>
                 ELSE <<[type |-> "auth_failed", src |-> "ws"]>>]

\* handler of a connection that waits in authenticate: registered when it
\* returns True, closed with code 1008 when it returns False
AuthRecv(c, ev) ==
    /\ clientPc[c] = "auth"
    /\ firstMsg' = [firstMsg EXCEPT ![c] = ev]
    /\ LET r == Authenticate(c, ev)
       IN  /\ clientOut' = [clientOut EXCEPT ![c] = @ \o r.out]
           /\ IF r.ok
              THEN Register(c) /\ UNCHANGED closeCode
              ELSE /\ clientPc' = [clientPc EXCEPT ![c] = "closed"]
                   /\ closeCode' = [closeCode EXCEPT ![c] = 1008]
                   /\ UNCHANGED <<clients, joinedAt>>
    /\ UNCHANGED <<codecVars, hubVars, envVars, micVars, stopPc, stopLog, cancelled,
                   stalled, rs>>

\* ------------------------------------------- the mic path (browser to hubs)
\* a send on this writer raises: its peer reset it, or its handler closed it
SendFails(w) == w \in broken \/ hubPc[w] = "closed"

CountKind(s, k) == Cardinality({i \in 1..Len(s) : s[i].kind = k})

\* the binary frames of browser connection c grow by one byte, so that no
\* two of them are alike
\* the frame send_audio of c is sending
CurMic_First(c) == Pcm(1)

CurMic(c) == Pcm(CountKind(bcastLog[c], "mic"))

\* what send_audio writes; by is the browser connection whose frame it is (a
\* history field, not on the wire)
ChunkHeader(data, c) ==
    [type |-> "audio-chunk", rate |-> 16000, width |-> 2, channels |-> 1,
     payload_length |-> Len(data), by |-> c]
RawAudio(data, c) == [type |-> "bytes", data |-> data, by |-> c]
RunPipeline_FromWake(c) ==
    [type |-> "run-pipeline", start_stage |-> "wake", end_stage |-> "tts",
     restart_on_end |-> FALSE, by |-> c]

RunPipeline(c) ==
    [type |-> "run-pipeline", start_stage |-> "asr", end_stage |-> "tts",
     restart_on_end |-> FALSE, by |-> c]

\* the loop variable moves on: the next writer, or the end of the broadcast
LoopOn(c, w) ==
    /\ todo' = [todo EXCEPT ![c] = @ \ {w}]
    /\ cur' = [cur EXCEPT ![c] = "none"]

\* the except clause of send_audio: the writer leaves the registry
Discard_Keeps(w) ==
    /\ ha_writers' = ha_writers
    /\ failedSend' = failedSend \cup {w}

Discard(w) ==
    /\ ha_writers' = ha_writers \ {w}
    /\ failedSend' = failedSend \cup {w}

\* async for message in websocket: a binary frame; send_audio returns at
\* once without a hub connection, else it takes list(self.ha_writers)
ClientRecvBinary(c) ==
    /\ clientPc[c] = "active"
    /\ SumLen(bcastLog, Clients) < MaxClientMsgs
    /\ bcastLog' = [bcastLog EXCEPT ![c] = Append(@, [kind |-> "mic", snap |-> ha_writers])]
    /\ todo' = [todo EXCEPT ![c] = ha_writers]
    /\ clientPc' = [clientPc EXCEPT ![c] = IF ha_writers = {} THEN "active" ELSE "mic"]
    /\ UNCHANGED <<ctlVars, codecVars, hubVars, clients, joinedAt, closeCode, clientOut,
                   envVars, cur, failedSend>>

\* await self.send_json(writer, message) of send_audio for the next writer:
\* the header is written and drained; on a writer that does not drain the
\* loop waits ("mic_wait") and goes no further
MicSendHeader(c, w) ==
    /\ clientPc[c] = "mic"
    /\ w \in todo[c]
    /\ IF SendFails(w)
       THEN /\ Discard(w)
            /\ LoopOn(c, w)
            /\ clientPc' = [clientPc EXCEPT ![c] =
                              IF todo[c] = {w} THEN "active" ELSE "mic"]
            /\ UNCHANGED hubOut
       ELSE IF w \in stalled
       THEN /\ cur' = [cur EXCEPT ![c] = w]
            /\ clientPc' = [clientPc EXCEPT ![c] = "mic_wait"]
            /\ UNCHANGED <<hubOut, ha_writers, failedSend, todo>>
       ELSE /\ hubOut' = [hubOut EXCEPT ![w] = Append(@, ChunkHeader(CurMic(c), c))]
            /\ cur' = [cur EXCEPT ![c] = w]
            /\ clientPc' = [clientPc EXCEPT ![c] = "mic_payload"]
            /\ UNCHANGED <<ha_writers, failedSend, todo>>
    /\ UNCHANGED <<ctlVars, codecVars, hubPc, hubIn, client_tasks, clients, joinedAt,
                   closeCode, clientOut, envVars, bcastLog>>

\* writer.write(audio_data); await writer.drain() of send_audio
MicSendPayload(c) ==
    /\ clientPc[c] = "mic_payload"
    /\ LET w == cur[c]
       IN  /\ IF SendFails(w)
              THEN Discard(w) /\ UNCHANGED hubOut
              ELSE /\ hubOut' = [hubOut EXCEPT ![w] = Append(@, RawAudio(CurMic(c), c))]
                   /\ UNCHANGED <<ha_writers, failedSend>>
           /\ LoopOn(c, w)
           /\ clientPc' = [clientPc EXCEPT ![c] =
                             IF todo[c] = {w} THEN "active" ELSE "mic"]
    /\ UNCHANGED <<ctlVars, codecVars, hubPc, hubIn, client_tasks, clients, joinedAt,
                   closeCode, clientOut, envVars, bcastLog>>

\* a text frame {"type": "wake_detected"}: send_wake_word_detected takes
\* list(self.ha_writers)
ClientRecvWake(c) ==
    /\ clientPc[c] = "active"
    /\ SumLen(bcastLog, Clients) < MaxClientMsgs
    /\ bcastLog' = [bcastLog EXCEPT ![c] = Append(@, [kind |-> "wake", snap |-> ha_writers])]
    /\ todo' = [todo EXCEPT ![c] = ha_writers]
    /\ clientPc' = [clientPc EXCEPT ![c] = IF ha_writers = {} THEN "active" ELSE "wake"]
    /\ UNCHANGED <<ctlVars, codecVars, hubVars, clients, joinedAt, closeCode, clientOut,
                   envVars, cur, failedSend>>

\* await self.send_json(writer, pipeline_message) for the next writer; an
\* exception is passed over
WakeSend(c, w) ==
    /\ clientPc[c] = "wake"
    /\ w \in todo[c]
    /\ hubOut' = IF SendFails(w) THEN hubOut
                 ELSE [hubOut EXCEPT ![w] = Append(@, RunPipeline(c))]
    /\ LoopOn(c, w)
    /\ clientPc' = [clientPc EXCEPT ![c] = IF todo[c] = {w} THEN "active" ELSE "wake"]
    /\ UNCHANGED <<ctlVars, codecVars, hubPc, hubIn, ha_writers, client_tasks, clients,
                   joinedAt, closeCode, clientOut, envVars, bcastLog, failedSend>>

\* ------------------------------------------------ the hub peer's frames
\* A frame as the peer writes it: the header object, a newline unless the
\* next header is concatenated on the same line, the data block, the payload.
\* msg is the message the frame stands for.
Frame(hdr, nl, block, payload, type, data) ==
    [hdr |-> hdr, nl |-> nl, block |-> block, payload |-> payload,
     msg |-> [type |-> type, data |-> data, payload |-> payload]]

RateBlock == <<LB, "r16000", RB>>

BareFrames ==
    {Frame(<<LB, "ping", RB>>, nl, <<>>, <<>>, "ping", "none") : nl \in BOOLEAN}
    \cup {Frame(<<LB, "audio-start", "r16000", RB>>, nl, <<>>, <<>>,
                "audio-start", "r16000") : nl \in BOOLEAN}

BodyFrames ==
    {Frame(<<LB, "audio-start", "D3", RB>>, TRUE, RateBlock, <<>>,
           "audio-start", "r16000"),
     Frame(<<LB, "audio-chunk", "P3", RB>>, TRUE, <<>>, <<LB, "ping", RB>>,
           "audio-chunk", "none"),
     Frame(<<LB, "audio-chunk", "P2", RB>>, TRUE, <<>>, <<NL, LB>>,
           "audio-chunk", "none"),
     Frame(<<LB, "audio-chunk", "D3", "P2", RB>>, TRUE, RateBlock, <<RB, NL>>,
           "audio-chunk", "r16000")}

FrameSet == BareFrames \cup BodyFrames

\* noise between frames: bytes other than "{"
NoiseSet == {<<>>, <<"x", BadUtf8>>, <<RB, NL, SP>>}

Inputs ==
    UNION {[1..n -> [frame : FrameSet, noise : NoiseSet]] : n \in 1..MaxFrames}

EncodeFrame(f) ==
    f.hdr \o (IF f.nl THEN <<NL>> ELSE <<>>) \o f.block \o f.payload

RECURSIVE Encode(_)
Encode(in) ==
    IF in = <<>> THEN <<>>
    ELSE in[1].noise \o EncodeFrame(in[1].frame) \o Encode(Tail(in))

Expected(in) == [i \in 1..Len(in) |-> in[i].frame.msg]

\* --------------------------------------------------------- specifications
InitMic ==
    /\ todo = [c \in Clients |-> {}]
    /\ cur = [c \in Clients |-> "none"]
    /\ bcastLog = [c \in Clients |-> <<>>]
    /\ failedSend = {}

\* no call of resample_audio is under way
NoCall == [pc |-> "none"]

InitCtl ==
    /\ firstMsg = [c \in Clients |-> [kind |-> "none"]]
    /\ stopPc = "run"
    /\ stopLog = <<>>
    /\ cancelled = {}
    /\ stalled = {}
    /\ rs = NoCall

NoHubIO == [h \in Hubs |-> <<>>]
NoClientIO == [c \in Clients |-> <<>>]

InitCodec ==
    /\ sent \in Inputs
    /\ stream = Encode(sent)
    /\ line = <<>>
    /\ pos = 1
    /\ hubPc = [h \in Hubs |-> "free"]
    /\ hubIn = NoHubIO
    /\ hubOut = NoHubIO
    /\ ha_writers = {}
    /\ client_tasks = {}
    /\ broken = {}
    /\ clients = {}
    /\ clientPc = [c \in Clients |-> "free"]
    /\ clientOut = NoClientIO
    /\ joinedAt = [c \in Clients |-> [h \in Hubs |-> 0]]
    /\ closeCode = [c \in Clients |-> 0]
    /\ auth_token = "none"
    /\ listening = {"wyoming", "ws"}
    /\ InitMic
    /\ InitCtl

NextCodec ==
    \/ HubAccept(CodecHub)
    \/ ReadLine
    \/ Scan

SpecCodec == InitCodec /\ [][NextCodec]_vars

\* ------------------------------------------------------------------ C1
IsPrefix(a, b) == Len(a) <= Len(b) /\ a = SubSeq(b, 1, Len(a))

\* C1: a stream of N well-formed frames with noise free of "{" between them
\* and headers concatenated on a line is decoded into exactly the N messages,
\* in order: what was passed to handle_message is always a prefix of the
\* frames' messages, and all of them once the stream is read to its end.
C1_DecodesEveryFrame ==
    /\ IsPrefix(hubIn[CodecHub], Expected(sent))
    /\ hubPc[CodecHub] = "closed" => hubIn[CodecHub] = Expected(sent)

C1_Witness ==
    /\ hubPc[CodecHub] = "closed"
    /\ Len(sent) = 2
    /\ sent[1].noise = <<"x", BadUtf8>>
    /\ ~sent[1].frame.nl
    /\ sent[2].noise = <<RB, NL, SP>>
    /\ hubIn[CodecHub] = Expected(sent)

\* ------------------------------------------------------------------ C2
\* the offset in the peer's byte stream at which frame i ends
EndOf(in, i) == Len(Encode(SubSeq(in, 1, i)))

\* C2: whenever the read loop passes on a message with a payload, the payload
\* is exactly the payload_length bytes that follow the frame's header line and
\* data block in the stream, whatever they are; none of them was parsed as a
\* header (the message is the frame's own, the n-th for the n-th frame), and
\* the next read starts at the byte right after them.
C2_PayloadIsNextLBytes ==
    [][LET n == Len(hubIn'[CodecHub])
           all == Encode(sent)
           payload == hubIn'[CodecHub][n].payload
           L == LenOf(FieldOf(sent[n].frame.hdr, PlenTok))
       IN  (n = Len(hubIn[CodecHub]) + 1 /\ payload # <<>>) =>
               /\ n <= Len(sent)
               /\ Len(payload) = L
               /\ payload = SubSeq(all, EndOf(sent, n) - L + 1, EndOf(sent, n))
               /\ stream' = SubSeq(all, EndOf(sent, n) + 1, Len(all))
               /\ hubPc'[CodecHub] = "readline"]_vars

C2_Witness ==
    /\ hubPc[CodecHub] = "closed"
    /\ Len(hubIn[CodecHub]) = 2
    /\ hubIn[CodecHub][1].payload = <<LB, "ping", RB>>
    /\ hubIn[CodecHub][2].payload = <<NL, LB>>

\* -------------------------------------------------- the TTS path (hub to
\* browsers): hub connections come, send messages, go; browsers come and go
InitServers(token) ==
    /\ sent = <<>>
    /\ stream = <<>>
    /\ line = <<>>
    /\ pos = 1
    /\ hubPc = [h \in Hubs |-> "free"]
    /\ hubIn = NoHubIO
    /\ hubOut = NoHubIO
    /\ ha_writers = {}
    /\ client_tasks = {}
    /\ broken = {}
    /\ clients = {}
    /\ clientPc = [c \in Clients |-> "free"]
    /\ clientOut = NoClientIO
    /\ joinedAt = [c \in Clients |-> [h \in Hubs |-> 0]]
    /\ closeCode = [c \in Clients |-> 0]
    /\ auth_token = token
    /\ listening = {"wyoming", "ws"}
    /\ InitMic
    /\ InitCtl

InitRelay == InitServers("none")

NextTts ==
    \/ \E h \in Hubs : HubAccept(h)
    \/ \E h \in Hubs : HubRecv(h)
    \/ \E h \in Hubs : HubEOF(h)
    \/ \E x \in Hubs \cup Clients : Break(x)
    \/ \E c \in Clients : ClientAccept(c)

SpecTts == InitRelay /\ [][NextTts]_vars

\* ------------------------------------------------------------------ C3
\* the frames a browser connection is to get for the messages of hub
\* connection h: the declared rate for an audio-start, the bytes of a chunk
RECURSIVE TtsExpected(_, _)
TtsExpected(msgs, h) ==
    IF msgs = <<>> THEN <<>>
    ELSE LET m == Head(msgs)
             f == CASE m.type = "audio-start" ->
                         <<[type |-> "audio_start", src |-> h,
                            rate |-> IF m.data = "r16000" THEN 16000 ELSE 22050]>>
                    [] m.type = "audio-chunk" ->
                         <<[type |-> "binary", src |-> h, data |-> m.payload]>>
                    [] OTHER -> <<>>
         IN  f \o TtsExpected(Tail(msgs), h)

FromHub(out, h) == SelectSeq(out, LAMBDA f : f.src = h)

\* audio-start, then chunks, then audio-stop, and nothing else
IsTtsSession(msgs) ==
    /\ Len(msgs) >= 2
    /\ msgs[1].type = "audio-start"
    /\ msgs[Len(msgs)].type = "audio-stop"
    /\ \A i \in 2..(Len(msgs) - 1) : msgs[i].type = "audio-chunk"

\* C3: a browser connection that is registered and was not reset has been
\* sent, for every hub connection, one audio_start with the declared rate per
\* audio-start and one binary frame per audio-chunk dispatched since it
\* registered, in the hub's order (so audio_start R and k frames for
\* audio-start R, k chunks, audio-stop); and a hub connection that was not
\* reset and sent exactly such a session got exactly one played.
C3_TtsSessionRelayed ==
    /\ \A h \in Hubs : \A c \in clients \ broken :
          FromHub(clientOut[c], h) =
              TtsExpected(SubSeq(hubIn[h], joinedAt[c][h] + 1, Len(hubIn[h])), h)
    /\ \A h \in Hubs \ broken :
          IsTtsSession(hubIn[h]) => CountType(hubOut[h], "played") = 1

C3_Witness ==
    /\ hubIn[CodecHub] = <<MsgStart("r16000"), MsgChunk(Pcm(1)), MsgChunk(Pcm(2)), MsgStop>>
    /\ broken = {}
    /\ clients = Clients
    /\ \A c \in Clients :
          clientOut[c] = <<[type |-> "audio_start", rate |-> 16000, src |-> CodecHub],
                           [type |-> "binary", data |-> Pcm(1), src |-> CodecHub],
                           [type |-> "binary", data |-> Pcm(2), src |-> CodecHub]>>
    /\ hubOut[CodecHub] = <<Satellite, Played>>

\* ------------------------------------------------------------------ C7
\* C7: on every hub connection the played messages written are as many as the
\* audio-stop messages dispatched on that same connection (never more, and
\* no fewer unless the connection was reset, when nothing can be written):
\* one played per audio-stop, on its own link, and none without one.
C7_OnePlayedPerStop ==
    \A h \in Hubs :
       /\ CountType(hubOut[h], "played") <= CountType(hubIn[h], "audio-stop")
       /\ h \notin broken =>
             CountType(hubOut[h], "played") = CountType(hubIn[h], "audio-stop")

C7_Witness ==
    /\ CountType(hubIn[CodecHub], "audio-stop") = 2
    /\ CountType(hubOut[CodecHub], "played") = 2
    /\ \E h \in Hubs \ {CodecHub} :
          /\ Len(hubIn[h]) >= 1
          /\ CountType(hubOut[h], "played") = 0

\* ------------------------------------------------------------------ C10
\* C10: a step in which the handler of one hub connection ends (EOF, reset,
\* an exception of the dispatch) takes that connection, and nothing else, out
\* of the registries: every other hub connection is where it was, the
\* browser connections and their registry are untouched, both listeners
\* still accept.
C10_CloseIsLocal ==
    [][\A h \in Hubs :
          (hubPc[h] \in {"readline", "scan"} /\ hubPc'[h] = "closed") =>
              /\ ha_writers' = ha_writers \ {h}
              /\ client_tasks' = client_tasks \ {h}
              /\ \A g \in Hubs \ {h} : hubPc'[g] = hubPc[g]
              /\ clients' = clients
              /\ clientPc' = clientPc
              /\ listening' = listening]_vars

C10_Witness ==
    /\ hubPc[CodecHub] = "closed"
    /\ CodecHub \in broken
    /\ \E h \in Hubs \ {CodecHub} :
          /\ hubPc[h] = "readline"
          /\ h \in ha_writers /\ h \in client_tasks
          /\ Len(hubIn[h]) >= 1
    /\ clients = Clients

\* ------------------------------------------ the mic path (browsers to hubs)
NextMic ==
    \/ \E h \in Hubs : HubAccept(h)
    \/ \E h \in Hubs : HubEOF(h)
    \/ \E x \in Hubs : Break(x)
    \/ \E c \in Clients : ClientAccept(c)
    \/ \E c \in Clients : ClientRecvBinary(c)
    \/ \E c \in Clients, w \in Hubs : MicSendHeader(c, w)
    \/ \E c \in Clients : MicSendPayload(c)
    \/ \E c \in Clients : ClientRecvWake(c)
    \/ \E c \in Clients, w \in Hubs : WakeSend(c, w)

SpecMic == InitRelay /\ [][NextMic]_vars

\* ------------------------------------------------------------------ C4
\* the broadcasts of kind k of browser connection c that had writer w in
\* their list(self.ha_writers)
BcastsTo(c, w, k) ==
    Cardinality({j \in 1..Len(bcastLog[c]) :
                    bcastLog[c][j].kind = k /\ w \in bcastLog[c][j].snap})

\* the broadcast loop of c of kind pc has not reached w yet
Pending(c, w, pcs) == IF clientPc[c] \in pcs /\ w \in todo[c] THEN 1 ELSE 0

\* C4: for every wake_detected of a browser connection c and every hub
\* connection w registered when it was handled, w is written exactly one
\* run-pipeline (asr to tts, no restart) once the loop has reached it: the
\* run-pipeline messages of c on w are never more than c's wake_detected with
\* w registered, they are as many on a connection that takes writes, and each
\* has the three stage fields.
C4_WakeReachesEveryHub ==
    \A c \in Clients : \A w \in Hubs :
       LET want == [type |-> "run-pipeline", start_stage |-> "asr",
                    end_stage |-> "tts", restart_on_end |-> FALSE, by |-> c]
           got == Cardinality({i \in 1..Len(hubOut[w]) :
                      hubOut[w][i].type = "run-pipeline" /\ hubOut[w][i].by = c})
       IN  /\ Count(hubOut[w], want) = got
           /\ got <= BcastsTo(c, w, "wake")
           /\ ~SendFails(w) =>
                 got = BcastsTo(c, w, "wake") - Pending(c, w, {"wake"})

C4_Witness ==
    /\ \E c \in Clients :
          /\ bcastLog[c] = <<[kind |-> "wake", snap |-> Hubs]>>
          /\ clientPc[c] = "active"
          /\ \A w \in Hubs :
                hubOut[w] = <<Satellite,
                              [type |-> "run-pipeline", start_stage |-> "asr",
                               end_stage |-> "tts", restart_on_end |-> FALSE, by |-> c]>>

\* ------------------------------------------------------------------ C5
\* C5: a writer on which a send of the mic broadcast raised is out of
\* ha_writers; and every other writer of the broadcast's list that takes
\* writes has got the audio-chunk header (payload_length the length of the
\* frame) and the frame's bytes once the loop is past it.
C5_MicFanOutSurvivesFailure ==
    /\ failedSend \cap ha_writers = {}
    /\ \A c \in Clients : \A w \in Hubs : \A j \in 1..Len(bcastLog[c]) :
          LET e == bcastLog[c][j]
              n == CountKind(SubSeq(bcastLog[c], 1, j), "mic")
              current == j = Len(bcastLog[c])
                         /\ Pending(c, w, {"mic", "mic_payload"}) = 1
          IN  (e.kind = "mic" /\ w \in e.snap /\ ~SendFails(w) /\ ~current) =>
                 /\ Count(hubOut[w],
                          [type |-> "audio-chunk", rate |-> 16000, width |-> 2,
                           channels |-> 1, payload_length |-> n, by |-> c]) = 1
                 /\ Count(hubOut[w], [type |-> "bytes", data |-> Pcm(n), by |-> c]) = 1

C5_Witness ==
    \E c \in Clients : \E i \in Hubs :
       /\ bcastLog[c] = <<[kind |-> "mic", snap |-> Hubs]>>
       /\ clientPc[c] = "active"
       /\ failedSend = {i}
       /\ i \notin ha_writers
       /\ hubPc[i] = "readline"
       /\ \A w \in Hubs \ {i} :
             hubOut[w] = <<Satellite,
                           [type |-> "audio-chunk", rate |-> 16000, width |-> 2,
                            channels |-> 1, payload_length |-> 1, by |-> c],
                           [type |-> "bytes", data |-> Pcm(1), by |-> c]>>

\* -------------------------------------------- a configured auth token
InitAuth == InitServers("secret")

NextAuth ==
    \/ \E h \in Hubs : HubAccept(h)
    \/ \E c \in Clients : ClientAccept(c)
    \/ \E c \in Clients : \E ev \in AuthEvents : AuthRecv(c, ev)
    \/ \E c \in Clients : ClientClose(c)
    \/ \E c \in Clients : Break(c)
    \/ \E c \in Clients : ClientRecvBinary(c)
    \/ \E c \in Clients, w \in Hubs : MicSendHeader(c, w)
    \/ \E c \in Clients : MicSendPayload(c)

SpecAuth == InitAuth /\ [][NextAuth]_vars


\* ------------------------------------------------------------------ C6
\* the first message was an auth message carrying the configured token
SentMatchingAuth(c) ==
    /\ firstMsg[c].kind = "frame"
    /\ LET t == firstMsg[c].text
       IN  /\ Len(t) = 4 /\ t[1] = LB /\ t[4] = RB
           /\ {t[2], t[3]} = {"t:auth", "k:" \o auth_token}

\* C6: with a token configured, a browser connection that is registered, or
\* whose audio was relayed, has sent an auth message with the matching token
\* first; one whose wait for the first message ran out, or whose first
\* message was anything else, is closed with code 1008, is not registered
\* and had no audio relayed.
C6_RegisteredOnlyAfterAuth ==
    auth_token # "none" =>
       \A c \in Clients :
          /\ (c \in clients \/ clientPc[c] \in {"active", "mic", "mic_payload"}
                \/ bcastLog[c] # <<>>) => SentMatchingAuth(c)
          /\ (firstMsg[c].kind \in {"timeout", "frame"} /\ ~SentMatchingAuth(c)) =>
                /\ clientPc[c] = "closed"
                /\ closeCode[c] = 1008
                /\ c \notin clients
                /\ bcastLog[c] = <<>>
                /\ \A i \in 1..Len(clientOut[c]) : clientOut[c][i].type = "auth_failed"

C6_Witness ==
    \E c, d \in Clients :
       /\ c \in clients /\ bcastLog[c] # <<>> /\ SentMatchingAuth(c)
       /\ firstMsg[d] = [kind |-> "frame", text |-> <<LB, "t:auth", "k:wrong", RB>>]
       /\ closeCode[d] = 1008 /\ d \notin clients
       /\ clientOut[d] = <<[type |-> "auth_failed", src |-> "ws"]>>


\* ------------------------------------------------------------- shutdown
\* main's finally block: await ws_server.stop(), then await wyoming.stop().
\* A step runs from one await to the next.  stopLog gets an entry for what
\* stop() does to a set of connections or to a listener, for a task that
\* gets its cancellation and for a timeout of wait_for.
StopNow ==
    [pc |-> stopPc, log |-> stopLog, tasks |-> client_tasks,
     writers |-> ha_writers, lst |-> listening, cancelled |-> cancelled]

StopApply(s) ==
    /\ stopPc' = s.pc
    /\ stopLog' = s.log
    /\ client_tasks' = s.tasks
    /\ ha_writers' = s.writers
    /\ listening' = s.lst
    /\ cancelled' = s.cancelled

\* what no step of the shutdown sequence changes
stopFrame ==
    <<codecVars, hubIn, hubOut, clientOut, joinedAt, broken, auth_token,
      micVars, firstMsg, stalled, rs>>

\* WyomingServer.stop, 3: self.server.close(), up to the wait for it
StopListener(s) ==
    [s EXCEPT !.lst = @ \ {"wyoming"},
              !.log = Append(@, [op |-> "close_listener", who |-> {"wyoming"}]),
              !.pc = "hub_wait_listener"]

\* WyomingServer.stop, 2: writer.close() for every writer, up to the wait
\* for them; without a writer on to 3
StopWriters(s) ==
    IF s.writers = {} THEN StopListener(s)
    ELSE [s EXCEPT !.log = Append(@, [op |-> "close_socket", who |-> s.writers]),
                   !.pc = "hub_wait_writers"]

\* WyomingServer.stop, 1: task.cancel() for every task, up to the wait for
\* them; without a task on to 2
StopTasks(s) ==
    IF s.tasks = {} THEN StopWriters(s)
    ELSE [s EXCEPT !.log = Append(@, [op |-> "cancel", who |-> s.tasks]),
                   !.cancelled = s.tasks,
                   !.pc = "hub_wait_tasks"]

\* the shutdown event is set: main leaves its loop; WebSocketServer.stop
\* closes its listener and waits for it
Shutdown ==
    /\ stopPc = "run"
    /\ StopApply([StopNow EXCEPT
                     !.lst = @ \ {"ws"},
                     !.log = Append(@, [op |-> "close_listener", who |-> {"ws"}]),
                     !.pc = "ws_wait_closed"])
    /\ UNCHANGED <<stopFrame, hubPc, clients, clientPc, closeCode>>

\* await self.server.wait_closed() returns: client.close() for every
\* registered connection and the wait for them; without one
\* WebSocketServer.stop returns and WyomingServer.stop begins
WsServerClosed ==
    /\ stopPc = "ws_wait_closed"
    /\ StopApply(IF clients = {} THEN StopTasks(StopNow)
                 ELSE [StopNow EXCEPT
                          !.log = Append(@, [op |-> "close_socket", who |-> clients]),
                          !.pc = "ws_wait_clients"])
    /\ UNCHANGED <<stopFrame, hubPc, clients, clientPc, closeCode>>

\* the gather of the client.close() returns: self.clients.clear(), and
\* WyomingServer.stop begins
WsClientsClosed ==
    /\ stopPc = "ws_wait_clients"
    /\ LET who == stopLog[Len(stopLog)].who
           shut == {c \in who : clientPc[c] = "active"}
       IN  /\ clientPc' = [c \in Clients |-> IF c \in shut THEN "closed" ELSE clientPc[c]]
           /\ closeCode' = [c \in Clients |-> IF c \in shut THEN 1000 ELSE closeCode[c]]
    /\ clients' = {}
    /\ StopApply(StopTasks(StopNow))
    /\ UNCHANGED <<stopFrame, hubPc>>

\* a cancelled task gets CancelledError at its await: except
\* CancelledError: raise, then the finally block
HubCancelled(h) ==
    /\ h \in cancelled
    /\ hubPc[h] # "closed"
    /\ Cleanup(h)
    /\ stopLog' = Append(stopLog, [op |-> "cancelled", who |-> {h}])
    /\ UNCHANGED <<stopFrame, clients, clientPc, closeCode, listening,
                   stopPc, cancelled>>

\* await writer.wait_closed() of the finally block returns: the task ends
HubTaskExit(h) ==
    /\ h \in cancelled
    /\ hubPc[h] = "closed"
    /\ cancelled' = cancelled \ {h}
    /\ UNCHANGED <<stopFrame, hubPc, ha_writers, client_tasks, clients, clientPc,
                   closeCode, listening, stopPc, stopLog>>

\* the gather of the cancelled tasks returns: self.client_tasks.clear()
HubTasksDone ==
    /\ stopPc = "hub_wait_tasks"
    /\ cancelled = {}
    /\ StopApply(StopWriters([StopNow EXCEPT !.tasks = {}]))
    /\ UNCHANGED <<stopFrame, hubPc, clients, clientPc, closeCode>>

\* wait_for(..., timeout=1.0) gives up on tasks that have not ended (the
\* event loop has delivered every cancellation by then)
HubTasksTimeout ==
    /\ stopPc = "hub_wait_tasks"
    /\ cancelled # {}
    /\ \A h \in cancelled : hubPc[h] = "closed"
    /\ StopApply(StopWriters([StopNow EXCEPT
                                 !.tasks = {},
                                 !.cancelled = {},
                                 !.log = Append(@, [op |-> "timeout", who |-> {"tasks"}])]))
    /\ UNCHANGED <<stopFrame, hubPc, clients, clientPc, closeCode>>

\* the gather of the writer.wait_closed() returns: self.ha_writers.clear().
\* A transport is closed once connection_lost has run, which feeds EOF to the
\* reader first: a handler that waited in readline has ended by then.
HubWritersClosed ==
    /\ stopPc = "hub_wait_writers"
    /\ \A h \in stopLog[Len(stopLog)].who : hubPc[h] # "readline"
    /\ StopApply(StopListener([StopNow EXCEPT !.writers = {}]))
    /\ UNCHANGED <<stopFrame, hubPc, clients, clientPc, closeCode>>

HubWritersTimeout ==
    /\ stopPc = "hub_wait_writers"
    /\ StopApply(StopListener([StopNow EXCEPT
                                  !.writers = {},
                                  !.log = Append(@, [op |-> "timeout", who |-> {"writers"}])]))
    /\ UNCHANGED <<stopFrame, hubPc, clients, clientPc, closeCode>>

\* self.server.wait_closed() of WyomingServer returns: both stop() are over
HubListenerClosed ==
    /\ stopPc = "hub_wait_listener"
    /\ stopPc' = "done"
    /\ UNCHANGED <<stopFrame, hubPc, ha_writers, client_tasks, clients, clientPc,
                   closeCode, listening, stopLog, cancelled>>

HubListenerTimeout ==
    /\ stopPc = "hub_wait_listener"
    /\ stopPc' = "done"
    /\ stopLog' = Append(stopLog, [op |-> "timeout", who |-> {"listener"}])
    /\ UNCHANGED <<stopFrame, hubPc, ha_writers, client_tasks, clients, clientPc,
                   closeCode, listening, cancelled>>

NextStop ==
    \/ \E h \in Hubs : HubAccept(h)
    \/ \E h \in Hubs : HubEOF(h)
    \/ \E c \in Clients : ClientAccept(c)
    \/ \E c \in Clients : ClientClose(c)
    \/ Shutdown
    \/ WsServerClosed
    \/ WsClientsClosed
    \/ \E h \in Hubs : HubCancelled(h)
    \/ \E h \in Hubs : HubTaskExit(h)
    \/ HubTasksDone
    \/ HubTasksTimeout
    \/ HubWritersClosed
    \/ HubWritersTimeout
    \/ HubListenerClosed
    \/ HubListenerTimeout

SpecStop == InitRelay /\ [][NextStop]_vars

\* the steps of the shutdown sequence that wait for no peer: a cancellation
\* delivered by the event loop, a gather with nothing left to wait for, a
\* timeout of wait_for
StopStepOfItsOwn ==
    \/ \E h \in Hubs : HubCancelled(h)
    \/ HubTasksDone
    \/ HubTasksTimeout
    \/ HubWritersTimeout
    \/ HubListenerTimeout

\* ------------------------------------------------------------------ C8
PhaseOf(op) ==
    CASE op = "cancel" -> 1
      [] op = "close_socket" -> 2
      [] op = "close_listener" -> 3
      [] OTHER -> 0

\* C8: what the two stop() do comes in phase order: no cancellation of tasks
\* after a close of sockets, and no close of sockets or cancellation of tasks
\* after a close of a listener.
C8_StrictPhaseOrder ==
    \A i, j \in 1..Len(stopLog) :
       (i < j /\ PhaseOf(stopLog[i].op) > 0 /\ PhaseOf(stopLog[j].op) > 0) =>
          PhaseOf(stopLog[i].op) <= PhaseOf(stopLog[j].op)

\* ------------------------------------------------------------------ C9
\* C9: a shutdown sequence that has begun and is not over always has a step
\* that waits for no peer (each wait has a timeout to give up at).
C9_ShutdownNeverWaitsOnPeer ==
    stopPc \notin {"run", "done"} => ENABLED StopStepOfItsOwn


\* ------------------------------------- every kind of message on a hub link
MsgDescribe == [type |-> "describe", data |-> "none", payload |-> <<>>]
\* an audio-chunk without a payload whose data field is a string
MsgHex(tok) == [type |-> "audio-chunk", data |-> tok, payload |-> <<>>]

\* what the peer of CodecHub sends: describe, audio-start at either rate,
\* chunks with a payload, chunks with a hex data field (valid or not),
\* audio-stop; the other hub connections send nothing
HubMsgs(h) ==
    IF h # CodecHub THEN {}
    ELSE {MsgDescribe, MsgStart("r16000"), MsgStart("r22050"), MsgStop,
          MsgHex("hexok"), MsgHex("hexbad"),
          MsgChunk(Pcm(1 + CountType(hubIn[h], "audio-chunk")))}

\* one turn of the read loop on a line that holds one well-formed frame
HubRecvAny(h) ==
    /\ hubPc[h] = "readline"
    /\ SumLen(hubIn, Hubs) < MaxHubMsgs
    /\ \E m \in HubMsgs(h) : DispatchStep(h, m, "readline")
    /\ UNCHANGED <<ctlVars, codecVars, clientReg, envVars, micVars>>

NextHub ==
    \/ \E h \in Hubs : HubAccept(h)
    \/ \E h \in Hubs : HubRecvAny(h)
    \/ \E c \in Clients : ClientAccept(c)

SpecHub == InitRelay /\ [][NextHub]_vars

\* ------------------------------------------------------------------ C11
\* C11: a step that dispatches an audio or audio-chunk message without a
\* payload whose data field is not valid hex leaves the hub connection open
\* and registered (its read loop goes on to the next line).
C11_BadHexIsSkipped ==
    [][\A h \in Hubs :
          (/\ Len(hubIn'[h]) = Len(hubIn[h]) + 1
           /\ hubIn'[h][Len(hubIn'[h])].type \in {"audio", "audio-chunk"}
           /\ hubIn'[h][Len(hubIn'[h])].payload = <<>>
           /\ hubIn'[h][Len(hubIn'[h])].data = "hexbad") =>
              /\ hubPc'[h] = "readline"
              /\ h \in ha_writers'
              /\ h \in client_tasks']_vars




\* ------------------------------------------------------- a peer that stalls
\* the peer of a connection stops reading: the send buffer fills and drain
\* on it does not return (one fault: no second connection stalls)
Stall(x) ==
    /\ stalled = {}
    /\ (x \in Hubs => hubPc[x] = "readline")
    /\ (x \in Clients => clientPc[x] = "active")
    /\ stalled' = {x}
    /\ UNCHANGED <<codecVars, hubVars, clientVars, envVars, micVars,
                   firstMsg, stopPc, stopLog, cancelled, rs>>

\* on this path the peer of CodecHub streams chunks
StreamMsgs(h) ==
    IF h = CodecHub THEN {MsgChunk(Pcm(1 + CountType(hubIn[h], "audio-chunk")))}
    ELSE {}

HubRecvChunk(h) ==
    /\ hubPc[h] = "readline"
    /\ SumLen(hubIn, Hubs) < MaxHubMsgs
    /\ \E m \in StreamMsgs(h) : DispatchStep(h, m, "readline")
    /\ UNCHANGED <<ctlVars, codecVars, clientReg, envVars, micVars>>

NextStall ==
    \/ \E h \in Hubs : HubAccept(h)
    \/ \E c \in Clients : ClientAccept(c)
    \/ \E x \in Hubs \cup Clients : Stall(x)
    \/ \E h \in Hubs : HubRecvChunk(h)
    \/ \E c \in Clients : ClientRecvBinary(c)
    \/ \E c \in Clients, w \in Hubs : MicSendHeader(c, w)
    \/ \E c \in Clients : MicSendPayload(c)

SpecStall == InitRelay /\ [][NextStall]_vars

\* ------------------------------------------------------------------ C12
\* the mic broadcast of c can go on: a header or a payload can be written
MicLoopCanGoOn(c) ==
    ENABLED ((\E w \in Hubs : MicSendHeader(c, w)) \/ MicSendPayload(c))

\* C12: a peer that does not drain blocks no relay to the others: a browser
\* connection in its mic broadcast with a writer still to reach that takes
\* writes can go on with the broadcast, and no hub read loop waits on the
\* TTS broadcast to the browsers.
C12_StalledPeerBlocksNoRelay ==
    /\ \A c \in Clients :
          (\E w \in todo[c] \ stalled : ~SendFails(w)) => MicLoopCanGoOn(c)
    /\ \A h \in Hubs : hubPc[h] # "cast_wait"

\* each half of it
C12_MicHalf ==
    \A c \in Clients :
       (\E w \in todo[c] \ stalled : ~SendFails(w)) => MicLoopCanGoOn(c)

C12_TtsHalf == \A h \in Hubs : hubPc[h] # "cast_wait"




\* ------------------------------------------------------------------ C13
\* the run-pipeline messages of c written to w
PipelinesOn(w, c) ==
    Cardinality({i \in 1..Len(hubOut[w]) :
                    hubOut[w][i].type = "run-pipeline" /\ hubOut[w][i].by = c})

\* C13: a hub connection on which a send of the run-pipeline broadcast
\* failed (the loop is past it and a run-pipeline is missing on it) is out of
\* ha_writers; the writers that take writes have every run-pipeline.
C13_WakeFailureRemovesWriter ==
    \A c \in Clients : \A w \in Hubs :
       LET due == BcastsTo(c, w, "wake") - Pending(c, w, {"wake"})
       IN  /\ PipelinesOn(w, c) < due => w \notin ha_writers
           /\ ~SendFails(w) => PipelinesOn(w, c) = due


\* ------------------------------------------------------------------ C14
\* C14: a step that dispatches an audio-start or a chunk (a broadcast to the
\* browsers) takes every registered browser connection whose send fails out
\* of the registry, and every other registered one gets the frame.
C14_FailedClientRemoved ==
    [][\A h \in Hubs :
          (/\ Len(hubIn'[h]) = Len(hubIn[h]) + 1
           /\ hubIn'[h][Len(hubIn'[h])].type \in {"audio-start", "audio-chunk"}) =>
              /\ \A c \in clients \cap broken : c \notin clients'
              /\ \A c \in clients \ broken :
                    Len(clientOut'[c]) = Len(clientOut[c]) + 1]_vars


\* ------------------------------------------------------------------ C15
\* the messages of a hub connection that start a session or carry audio
OfSession(msgs) ==
    SelectSeq(msgs, LAMBDA m :
        \/ m.type = "audio-start"
        \/ (m.type = "audio-chunk" /\ (m.payload # <<>> \/ m.data = "hexok")))

\* the last index below i of s that holds an element of type t, 0 without
LastBefore(s, i, t) ==
    LET S == {k \in 1..(i - 1) : s[k].type = t}
    IN  IF S = {} THEN 0 ELSE CHOOSE k \in S : \A l \in S : l <= k

\* C15: a browser connection gets one frame per audio-start and per chunk
\* of a hub connection since it registered; the audio_start note that
\* precedes a chunk most closely is the one of the last audio-start the hub
\* sent before that chunk and carries its rate (last start wins), and the
\* chunk's frame holds the bytes of that chunk alone.
C15_LastStartWins ==
    \A h \in Hubs : \A c \in clients \ (broken \cup stalled) :
       LET rel == OfSession(SubSeq(hubIn[h], joinedAt[c][h] + 1, Len(hubIn[h])))
           out == FromHub(clientOut[c], h)
       IN  /\ Len(out) = Len(rel)
           /\ \A i \in 1..Len(rel) :
                 rel[i].type = "audio-chunk" =>
                    LET j == LastBefore(rel, i, "audio-start")
                    IN  /\ out[i].type = "binary"
                        /\ out[i].data = (IF rel[i].payload # <<>> THEN rel[i].payload
                                          ELSE <<"hx">>)
                        /\ LastBefore(out, i, "audio_start") = j
                        /\ j > 0 => out[j].rate = (IF rel[j].data = "r16000" THEN 16000
                                                   ELSE 22050)

C15_Witness ==
    /\ hubIn[CodecHub] = <<MsgStart("r22050"), MsgChunk(Pcm(1)),
                           MsgStart("r16000"), MsgChunk(Pcm(2))>>
    /\ \E c \in clients :
          clientOut[c] = <<[type |-> "audio_start", rate |-> 22050, src |-> CodecHub],
                           [type |-> "binary", data |-> Pcm(1), src |-> CodecHub],
                           [type |-> "audio_start", rate |-> 16000, src |-> CodecHub],
                           [type |-> "binary", data |-> Pcm(2), src |-> CodecHub]>>




\* ------------------------------------------------------------------ C16
\* the index in msgs of the chunk that carries these bytes, 0 without
ChunkAt(msgs, bytes) ==
    LET S == {p \in 1..Len(msgs) : msgs[p].type = "audio-chunk" /\ msgs[p].payload = bytes}
    IN  IF S = {} THEN 0 ELSE CHOOSE p \in S : TRUE

\* the chunk at p of msgs is inside a session: an audio-start precedes it
\* with no audio-stop in between
InSession(msgs, p) ==
    LastBefore(msgs, p, "audio-start") > LastBefore(msgs, p, "audio-stop")

\* C16: a binary frame a browser connection got from a hub connection, whose
\* chunk is inside a session, has an audio_start note of that hub connection
\* before it in what the browser connection got.
C16_StartBeforeChunks ==
    \A h \in Hubs : \A c \in Clients :
       LET out == FromHub(clientOut[c], h)
       IN  \A i \in 1..Len(out) :
              (out[i].type = "binary"
                 /\ InSession(hubIn[h], ChunkAt(hubIn[h], out[i].data))) =>
                    LastBefore(out, i, "audio_start") > 0


\* ------------------------------------------------------------ resampling
RECURSIVE Gcd(_, _)
Gcd(a, b) == IF b = 0 THEN a ELSE Gcd(b, a % b)

CeilDiv(a, b) == (a + b - 1) \div b

\* resample_audio(audio_bytes, orig_rate, target_rate): nothing for nothing;
\* the bytes are read as 16-bit samples (np.frombuffer raises on an odd
\* number of bytes, and the except branch returns the input); resample_poly
\* with up = down = 1 copies the samples, else it gives ceil(n * up / down)
\* filtered samples ("rs" bytes, two per sample)
resample_audio(audio_bytes, orig_rate, target_rate) ==
    LET gcd == Gcd(orig_rate, target_rate)
        up == target_rate \div gcd
        down == orig_rate \div gcd
        n == Len(audio_bytes) \div 2
    IN  IF audio_bytes = <<>> THEN <<>>
        ELSE IF Len(audio_bytes) % 2 # 0 THEN audio_bytes
        ELSE IF up = down THEN audio_bytes
        ELSE [i \in 1..(2 * CeilDiv(n * up, down)) |-> "rs"]

\* ------------------------------------------------------------------ C17
ClientTargetRate == 16000

\* the indices of msgs that hold a chunk with audio, and the k-th of them
AudioIdx(msgs) ==
    {p \in 1..Len(msgs) :
        msgs[p].type = "audio-chunk" /\ (msgs[p].payload # <<>> \/ msgs[p].data = "hexok")}
NthOf(S, k) == CHOOSE p \in S : Cardinality({q \in S : q <= p}) = k

\* C17: the k-th binary frame of a browser connection registered from the
\* start holds the k-th chunk of the hub connection resampled from the rate
\* its session declared to the target rate: other bytes when the rates
\* differ, the chunk's own bytes when the declared rate is the target rate.
C17_ChunksResampledToTarget ==
    \A c \in clients \ (broken \cup stalled) :
       LET h == CodecHub
           msgs == hubIn[h]
           bins == SelectSeq(FromHub(clientOut[c], h), LAMBDA f : f.type = "binary")
       IN  joinedAt[c][h] = 0 =>
              /\ Len(bins) = Cardinality(AudioIdx(msgs))
              /\ \A k \in 1..Len(bins) :
                    LET p == NthOf(AudioIdx(msgs), k)
                        s == LastBefore(msgs, p, "audio-start")
                        rate == IF msgs[s].data = "r16000" THEN 16000 ELSE 22050
                        bytes == IF msgs[p].payload # <<>> THEN msgs[p].payload
                                 ELSE <<"hx">>
                    IN  InSession(msgs, p) =>
                           bins[k].data = resample_audio(bytes, rate, ClientTargetRate)


\* ------------------------------------------------------------------ C18
\* C18: a step that dispatches a describe writes one info reply to that hub
\* connection, equal to every info reply written to it before, whatever was
\* dispatched in between, and changes nothing else: not the registries, not
\* the connections' positions, not what the browsers were sent.
C18_DescribeIsIdempotent ==
    [][\A h \in Hubs :
          (/\ Len(hubIn'[h]) = Len(hubIn[h]) + 1
           /\ hubIn'[h][Len(hubIn'[h])].type = "describe") =>
              /\ Len(hubOut'[h]) = Len(hubOut[h]) + 1
              /\ SubSeq(hubOut'[h], 1, Len(hubOut[h])) = hubOut[h]
              /\ hubOut'[h][Len(hubOut'[h])].type = "info"
              /\ \A i \in 1..Len(hubOut[h]) :
                    hubOut[h][i].type = "info" =>
                       hubOut[h][i] = hubOut'[h][Len(hubOut'[h])]
              /\ \A g \in Hubs \ {h} : hubOut'[g] = hubOut[g] /\ hubIn'[g] = hubIn[g]
              /\ UNCHANGED <<hubPc, ha_writers, client_tasks, clientVars, envVars,
                             micVars, ctlVars>>]_vars

C18_Witness ==
    /\ Len(hubIn[CodecHub]) = 4
    /\ hubIn[CodecHub][1] = MsgDescribe
    /\ hubIn[CodecHub][2] = MsgStart("r16000")
    /\ hubIn[CodecHub][3].type = "audio-chunk"
    /\ hubIn[CodecHub][4] = MsgDescribe
    /\ CountType(hubOut[CodecHub], "info") = 2
    /\ hubOut[CodecHub][2] = hubOut[CodecHub][3]
    /\ clients # {}


\* ------------------------------------------------------------------ C19
\* the satellite identity fields of a handshake or of an info reply
Identity(m) ==
    [name |-> m.name, area |-> m.area, description |-> m.description,
     attribution |-> m.attribution, installed |-> m.installed,
     version |-> m.version, capabilities |-> m.capabilities,
     snd_format |-> m.snd_format]

\* C19: every info reply written to a hub connection has the identity
\* fields of the handshake written to it on accept.
C19_InfoMirrorsHandshake ==
    \A h \in Hubs : \A i, j \in 1..Len(hubOut[h]) :
       (hubOut[h][i].type = "satellite" /\ hubOut[h][j].type = "info") =>
          Identity(hubOut[h][j]) = Identity(hubOut[h][i])


\* ------------------------------------------------------------------ C20
\* C20: what is written to a hub connection begins with the handshake, which
\* is written once; a registered writer has its handshake written, so that
\* no broadcast of a browser's handler can come before it.
C20_HandshakeFirst ==
    \A h \in Hubs :
       /\ hubOut[h] # <<>> => hubOut[h][1].type = "satellite"
       /\ \A i \in 2..Len(hubOut[h]) : hubOut[h][i].type # "satellite"
       /\ h \in ha_writers => hubOut[h] # <<>>

C20_Witness ==
    \E h, g \in Hubs : \E c \in Clients :
       /\ h # g
       /\ bcastLog[c] # <<>>
       /\ bcastLog[c][1].snap = {h}
       /\ clientPc[c] \in {"mic", "mic_payload", "wake"}
       /\ g \in ha_writers
       /\ hubOut[g] = <<Satellite>>
       /\ Len(hubOut[h]) >= 2
       /\ hubOut[h][1] = Satellite


\* ------------------------------ messages that dispatch has no branch for
MsgOf(t) == [type |-> t, data |-> "none", payload |-> <<>>]

\* what the peer of CodecHub sends here: messages without a type and of a
\* type that handle_message does not name (bare, with a data object, with a
\* payload), run_pipeline, and ping; the other hub connections send nothing
OddMsgs(h) ==
    IF h # CodecHub THEN {}
    ELSE {MsgOf("none"), MsgOf("zzz"), MsgOf("run_pipeline"), MsgPing,
          [type |-> "zzz", data |-> "r16000", payload |-> Pcm(2)],
          [type |-> "none", data |-> "hexbad", payload |-> <<>>]}

HubRecvOdd(h) ==
    /\ hubPc[h] = "readline"
    /\ SumLen(hubIn, Hubs) < MaxHubMsgs
    /\ \E m \in OddMsgs(h) : DispatchStep(h, m, "readline")
    /\ UNCHANGED <<ctlVars, codecVars, clientReg, envVars, micVars>>

NextOdd ==
    \/ \E h \in Hubs : HubAccept(h)
    \/ \E h \in Hubs : HubRecvOdd(h)
    \/ \E h \in Hubs : HubEOF(h)
    \/ \E c \in Clients : ClientAccept(c)

SpecOdd == InitRelay /\ [][NextOdd]_vars

\* ------------------------------------------------------------------ C21
\* C21: a step that dispatches a message without a type, or of a type other
\* than ping, describe, audio-start, audio, audio-chunk and audio-stop,
\* writes nothing to any hub or browser connection, changes no registry and
\* leaves the hub connection at its read loop.
C21_UnknownIsIgnored ==
    [][\A h \in Hubs :
          (/\ Len(hubIn'[h]) = Len(hubIn[h]) + 1
           /\ hubIn'[h][Len(hubIn'[h])].type \notin
                 {"ping", "describe", "audio-start", "audio", "audio-chunk",
                  "audio-stop"}) =>
              /\ hubOut' = hubOut
              /\ clientOut' = clientOut
              /\ hubPc' = hubPc /\ hubPc'[h] = "readline"
              /\ UNCHANGED <<ha_writers, client_tasks, clientReg, envVars, micVars,
                             ctlVars>>]_vars

C21_Witness ==
    \E h \in Hubs :
       /\ Len(hubIn[h]) = 4
       /\ hubIn[h][1] = MsgOf("zzz")
       /\ hubIn[h][2] = MsgOf("none")
       /\ hubIn[h][3] = [type |-> "zzz", data |-> "r16000", payload |-> Pcm(2)]
       /\ hubIn[h][4] = MsgPing
       /\ hubOut[h] = <<Satellite, Pong>>
       /\ hubPc[h] = "readline" /\ h \in ha_writers
       /\ clients = Clients /\ \A c \in Clients : clientOut[c] = <<>>




\* ------------------------------------------------ control messages
\* json.dumps of a value of a reply: a number by its digits, a bool as
\* true / false
DumpInt(n) == ToString(n)
DumpBool(b) == IF b THEN "true" ELSE "false"

\* the text frames a registered browser sends here
ControlFrames ==
    { <<LB, "t:status_request", RB>>, <<LB, "t:ping", RB>>, <<LB, "t:zzz", RB>>,
      <<LB, RB>>, <<LB, "t:ping">> }

\* handle_control_message for a frame other than wake_detected: the reply
\* it sends on this websocket, none for another type and for a frame that
\* is not JSON (the exception is logged)
ControlReply(text) ==
    LET data == WsLoads(text)
    IN  IF data.kind # "dict" THEN <<>>
        ELSE IF data.type = "t:ping" THEN <<[type |-> "pong", src |-> "ws"]>>
        ELSE IF data.type = "t:status_request"
        THEN <<[type |-> "status", src |-> "ws",
                clients |-> DumpInt(Cardinality(clients)),
                ha_connected |-> DumpBool(Cardinality(ha_writers) > 0)]>>
        ELSE <<>>

\* async for message in websocket: a text frame; a send on a reset
\* connection raises, which handle_control_message logs
ClientRecvControl(c, text) ==
    /\ clientPc[c] = "active"
    /\ SumLen(clientOut, Clients) < MaxClientMsgs
    /\ clientOut' = [clientOut EXCEPT ![c] =
                        IF c \in broken THEN @ ELSE @ \o ControlReply(text)]
    /\ UNCHANGED <<ctlVars, codecVars, hubVars, clientReg, envVars, micVars>>

NextStatus ==
    \/ \E h \in Hubs : HubAccept(h)
    \/ \E h \in Hubs : HubEOF(h)
    \/ \E c \in Clients : ClientAccept(c)
    \/ \E c \in Clients : ClientClose(c)
    \/ \E c \in Clients : \E text \in ControlFrames : ClientRecvControl(c, text)

SpecStatus == InitRelay /\ [][NextStatus]_vars

\* ------------------------------------------------------------------ C22
\* C22: a step in which a browser connection is sent a status reply gives it
\* the number of registered browser connections and the number of
\* registered hub connections of that moment.
C22_StatusCountsBoth ==
    [][\A c \in Clients :
          (/\ Len(clientOut'[c]) = Len(clientOut[c]) + 1
           /\ clientOut'[c][Len(clientOut'[c])].type = "status") =>
              /\ clientOut'[c][Len(clientOut'[c])].clients
                    = ToString(Cardinality(clients))
              /\ clientOut'[c][Len(clientOut'[c])].ha_connected
                    = ToString(Cardinality(ha_writers))]_vars

\* ------------------------------------------- resample_audio, sample by sample
Int16Min == -32768
Int16Max == 32767
MaxBytes == 4

\* bytes that build the extreme and the middle samples
ByteVals == {0, 127, 128, 255}

\* np.frombuffer(audio_bytes, dtype=np.int16): little-endian pairs of bytes,
\* two's complement (an odd number of bytes raises)
FromBuffer(bytes) ==
    [i \in 1..(Len(bytes) \div 2) |->
        LET u == bytes[2 * i - 1] + 256 * bytes[2 * i]
        IN  IF u >= 32768 THEN u - 65536 ELSE u]

\* astype(np.int16) keeps 16 bits of the value
AsInt16(x) == ((x + 32768) % 65536) - 32768

\* tobytes() of an int16 array
ToBytes(samples) ==
    [k \in 1..(2 * Len(samples)) |->
        LET u == samples[(k + 1) \div 2] % 65536
        IN  IF k % 2 = 1 THEN u % 256 ELSE u \div 256]

Clip_None(x) == x

\* np.clip(x, -32768, 32767)
Clip(x) == IF x < Int16Min THEN Int16Min ELSE IF x > Int16Max THEN Int16Max ELSE x

\* what signal.resample_poly may give for n samples: a copy when up = down,
\* else ceil(n * up / down) values of the filter, which overshoots the range
\* of its input
FloatVals == {-40000, Int16Min, 0, Int16Max, 40000}
ResamplePoly(audio_float, up, down) ==
    IF up = down THEN {audio_float}
    ELSE [1..CeilDiv(Len(audio_float) * up, down) -> FloatVals]

\* the calls that end in the except branch: an odd number of bytes, a rate
\* of zero
Raises(audio_bytes, orig_rate, target_rate) ==
    \/ Len(audio_bytes) % 2 # 0
    \/ orig_rate = 0
    \/ target_rate = 0

\* the bytes resample_audio returns when the filter gave `filtered`
ResampleBytes(audio_bytes, filtered) ==
    ToBytes([i \in 1..Len(filtered) |-> AsInt16(Clip(filtered[i]))])

RatePairs == {<<22050, 16000>>, <<16000, 22050>>, <<16000, 16000>>, <<0, 16000>>}

Calls ==
    {[pc |-> "call", audio_bytes |-> b, orig_rate |-> r[1], target_rate |-> r[2]] :
        b \in UNION {[1..n -> ByteVals] : n \in 0..MaxBytes}, r \in RatePairs}

\* one call of resample_audio, from its arguments to its return value
Resample ==
    /\ rs.pc = "call"
    /\ LET gcd == Gcd(rs.orig_rate, rs.target_rate)
           up == rs.target_rate \div gcd
           down == rs.orig_rate \div gcd
           done(filtered, out, how) ==
               rs' = [pc |-> "done", audio_bytes |-> rs.audio_bytes,
                      orig_rate |-> rs.orig_rate, target_rate |-> rs.target_rate,
                      how |-> how, filtered |-> filtered, out |-> out]
       IN  IF rs.audio_bytes = <<>> THEN done(<<>>, <<>>, "empty")
           ELSE IF Raises(rs.audio_bytes, rs.orig_rate, rs.target_rate)
           THEN done(<<>>, rs.audio_bytes, "except")
           ELSE \E filtered \in ResamplePoly(FromBuffer(rs.audio_bytes), up, down) :
                    done(filtered, ResampleBytes(rs.audio_bytes, filtered), "filter")
    /\ UNCHANGED <<codecVars, hubVars, clientVars, envVars, micVars,
                   firstMsg, stopPc, stopLog, cancelled, stalled>>

InitResample ==
    /\ sent = <<>>
    /\ stream = <<>>
    /\ line = <<>>
    /\ pos = 1
    /\ hubPc = [h \in Hubs |-> "free"]
    /\ hubIn = NoHubIO
    /\ hubOut = NoHubIO
    /\ ha_writers = {}
    /\ client_tasks = {}
    /\ broken = {}
    /\ clients = {}
    /\ clientPc = [c \in Clients |-> "free"]
    /\ clientOut = NoClientIO
    /\ joinedAt = [c \in Clients |-> [h \in Hubs |-> 0]]
    /\ closeCode = [c \in Clients |-> 0]
    /\ auth_token = "none"
    /\ listening = {"wyoming", "ws"}
    /\ InitMic
    /\ firstMsg = [c \in Clients |-> [kind |-> "none"]]
    /\ stopPc = "run"
    /\ stopLog = <<>>
    /\ cancelled = {}
    /\ stalled = {}
    /\ rs \in Calls

NextResample == Resample

SpecResample == InitResample /\ [][NextResample]_vars

\* ------------------------------------------------------------------ C23
\* C23: every sample resample_audio returns lies in -32768..32767 and is the
\* value the filter gave brought to the nearest end of that range (a value
\* beyond the range is never wrapped around to the other side)
C23_SamplesStayInInt16 ==
    rs.pc = "done" =>
        LET samples == FromBuffer(rs.out)
        IN  /\ \A i \in DOMAIN samples : samples[i] >= -32768 /\ samples[i] <= 32767
            /\ rs.how = "filter" =>
                   /\ Len(samples) = Len(rs.filtered)
                   /\ \A i \in DOMAIN samples :
                          samples[i] = IF rs.filtered[i] > 32767 THEN 32767
                                       ELSE IF rs.filtered[i] < -32768 THEN -32768
                                       ELSE rs.filtered[i]
            /\ rs.how = "except" => rs.out = rs.audio_bytes

C23_Witness ==
    /\ rs.pc = "done"
    /\ rs.how = "filter"
    /\ \E i \in DOMAIN rs.filtered : rs.filtered[i] > 32767
    /\ \E i \in DOMAIN rs.filtered : rs.filtered[i] < -32768

\* ------------------------------------------- a stream that ends too early
\* the peer's frames, and the stream cut at any byte before its end
CutInputs ==
    UNION {[1..n -> [frame : FrameSet, noise : {<<>>, <<"x", BadUtf8>>}]] : n \in 1..MaxFrames}

InitCut ==
    /\ sent \in CutInputs
    /\ \E k \in 0..(Len(Encode(sent)) - 1) : stream = SubSeq(Encode(sent), 1, k)
    /\ line = <<>>
    /\ pos = 1
    /\ hubPc = [h \in Hubs |-> "free"]
    /\ hubIn = NoHubIO
    /\ hubOut = NoHubIO
    /\ ha_writers = {}
    /\ client_tasks = {}
    /\ broken = {}
    /\ clients = {}
    /\ clientPc = [c \in Clients |-> "free"]
    /\ clientOut = NoClientIO
    /\ joinedAt = [c \in Clients |-> [h \in Hubs |-> 0]]
    /\ closeCode = [c \in Clients |-> 0]
    /\ auth_token = "none"
    /\ listening = {"wyoming", "ws"}
    /\ InitMic
    /\ InitCtl

SpecCut == InitCut /\ [][NextCodec]_vars

\* ------------------------------------------------------------------ C24
\* the scan is at a header that declares more data and payload bytes than
\* the stream holds before its end
ShortRead ==
    LET p1 == SkipSpace(line, pos)
        p2 == IF p1 > Len(line) THEN 0 ELSE NextBrace(line, p1)
        d == IF p2 = 0 THEN RawDecode(<<>>, 1) ELSE RawDecode(line, p2)
    IN  /\ hubPc[CodecHub] = "scan"
        /\ p2 # 0
        /\ d.ok
        /\ d.msg.data_length + d.msg.payload_length > Len(stream)

\* C24: when the stream ends before the data_length or payload_length bytes
\* a header declares, the step of the read loop passes no message to
\* handle_message, writes nothing, ends the connection (closed, out of
\* ha_writers and of client_tasks), and leaves the listeners, the other hub
\* connection and the browser connections as they were.
C24_TruncatedReadClosesLink ==
    [][ShortRead =>
          /\ hubIn' = hubIn
          /\ hubOut' = hubOut
          /\ clientOut' = clientOut
          /\ hubPc' = [hubPc EXCEPT ![CodecHub] = "closed"]
          /\ ha_writers' = ha_writers \ {CodecHub}
          /\ client_tasks' = client_tasks \ {CodecHub}
          /\ UNCHANGED <<listening, clients, clientPc, stopPc>>]_vars

C24_Witness ==
    /\ hubPc[CodecHub] = "closed"
    /\ Len(sent) = 2
    /\ sent[2].frame.block # <<>>
    /\ sent[2].frame.payload # <<>>
    /\ line = sent[2].frame.hdr
    /\ pos > Len(line)
    /\ stream = <<>>
    /\ hubIn[CodecHub] = <<sent[1].frame.msg>>
    /\ CodecHub \notin ha_writers \cup client_tasks

\* --------------------------------------- every way a hub handler can end

\* CodecHub is fed the bytes of one frame with a payload, whole or cut short;
\* the other hub connection sends whole messages: a ping (its reply raises on
\* a reset connection), hex that does not parse, a chunk (its relay waits on
\* a browser connection that does not drain)
ExitFrame ==
    Frame(<<LB, "audio-chunk", "P3", RB>>, TRUE, <<>>, <<LB, "ping", RB>>,
          "audio-chunk", "none")

ExitMsgs(h) ==
    IF h = CodecHub THEN {}
    ELSE {MsgPing, MsgHex("hexbad"),
          MsgChunk(Pcm(1 + CountType(hubIn[h], "audio-chunk")))}

HubRecvExit(h) ==
    /\ hubPc[h] = "readline"
    /\ Len(hubIn[h]) < MaxFrames
    /\ \E m \in ExitMsgs(h) : DispatchStep(h, m, "readline")
    /\ UNCHANGED <<ctlVars, codecVars, clientReg, envVars, micVars>>

InitExit ==
    /\ sent = <<[frame |-> ExitFrame, noise |-> <<>>]>>
    /\ \E k \in 0..Len(Encode(sent)) : stream = SubSeq(Encode(sent), 1, k)
    /\ line = <<>>
    /\ pos = 1
    /\ hubPc = [h \in Hubs |-> "free"]
    /\ hubIn = NoHubIO
    /\ hubOut = NoHubIO
    /\ ha_writers = {}
    /\ client_tasks = {}
    /\ broken = {}
    /\ clients = {}
    /\ clientPc = [c \in Clients |-> "free"]
    /\ clientOut = NoClientIO
    /\ joinedAt = [c \in Clients |-> [h \in Hubs |-> 0]]
    /\ closeCode = [c \in Clients |-> 0]
    /\ auth_token = "none"
    /\ listening = {"wyoming", "ws"}
    /\ InitMic
    /\ InitCtl

\* one browser connection is enough for a relay to wait on
ExitClients == {"c1"}

NextExit ==
    \/ \E h \in Hubs : HubAccept(h)
    \/ ReadLine
    \/ Scan
    \/ \E h \in Hubs \ {CodecHub} : HubRecvExit(h)
    \/ \E h \in Hubs \ {CodecHub} : HubEOF(h)
    \/ \E h \in Hubs \ {CodecHub} : Break(h)
    \/ \E c \in ExitClients : Stall(c)
    \/ \E c \in ExitClients : ClientAccept(c)
    \/ Shutdown
    \/ WsServerClosed
    \/ WsClientsClosed
    \/ \E h \in Hubs : HubCancelled(h)
    \/ \E h \in Hubs : HubTaskExit(h)
    \/ HubTasksDone
    \/ HubTasksTimeout
    \/ HubWritersClosed
    \/ HubWritersTimeout
    \/ HubListenerClosed
    \/ HubListenerTimeout

SpecExit == InitExit /\ [][NextExit]_vars

\* ------------------------------------------------------------------ C25
\* C25: however the handler of a hub connection ends (EOF, a reset, a frame
\* cut short, an exception of the dispatch, a cancellation while it waits in
\* a read or in a write), once its socket is closed its writer is not in
\* ha_writers and its task is not in client_tasks; and a connection that was
\* never accepted has no entry either.
C25_NoEntryOutlivesConnection ==
    \A h \in Hubs :
        hubPc[h] \in {"free", "closed"} => h \notin ha_writers /\ h \notin client_tasks

\* CodecHub ended on a payload cut short, the other hub connection was
\* cancelled by stop() while its relay waited on a stalled browser connection
C25_Witness ==
    /\ hubPc[CodecHub] = "closed"
    /\ hubIn[CodecHub] = <<>>
    /\ line = ExitFrame.hdr
    /\ \E h \in Hubs \ {CodecHub} :
          /\ hubPc[h] = "closed"
          /\ stalled # {}
          /\ \E i \in DOMAIN hubIn[h] : hubIn[h][i].type = "audio-chunk"
          /\ \E i \in DOMAIN stopLog : stopLog[i] = [op |-> "cancelled", who |-> {h}]

\* ------------------------------------------------------------------ C26
\* C26: on every hub connection each audio-chunk header is followed at once
\* by the audio bytes of the same broadcast, as many as its payload_length
\* says: nothing of another sender lies between a header and its payload.
C26_HeaderThenPayload ==
    \A w \in Hubs : \A i \in DOMAIN hubOut[w] :
        (hubOut[w][i].type = "audio-chunk" /\ i < Len(hubOut[w])) =>
            /\ hubOut[w][i + 1].type = "bytes"
            /\ hubOut[w][i + 1].by = hubOut[w][i].by
            /\ Len(hubOut[w][i + 1].data) = hubOut[w][i].payload_length

\* ------------------------------------------- the order of one hub connection
\* the peer of CodecHub sends messages that are answered (ping, describe,
\* audio-stop) and messages that are relayed (audio-start, chunks), in any
\* order; the other hub connection streams chunks
OrderMsgs(h) ==
    IF h = CodecHub
    THEN {MsgPing, MsgDescribe, MsgStop, MsgStart("r16000"),
          MsgChunk(Pcm(1 + CountType(hubIn[h], "audio-chunk")))}
    ELSE {MsgChunk(Pcm(1 + CountType(hubIn[h], "audio-chunk")))}

HubRecvOrder(h) ==
    /\ hubPc[h] = "readline"
    /\ SumLen(hubIn, Hubs) < MaxHubMsgs
    /\ \E m \in OrderMsgs(h) : DispatchStep(h, m, "readline")
    /\ UNCHANGED <<ctlVars, codecVars, clientReg, envVars, micVars>>

NextOrder ==
    \/ \E h \in Hubs : HubAccept(h)
    \/ \E h \in Hubs : HubRecvOrder(h)
    \/ \E c \in Clients : ClientAccept(c)

SpecOrder == InitRelay /\ [][NextOrder]_vars

\* ------------------------------------------------------------------ C27
\* the messages of msgs whose type is in T, in their order
OfTypes(msgs, T) == SelectSeq(msgs, LAMBDA m : m.type \in T)

\* C27: on every hub connection the replies written after the handshake are,
\* one for one and in the same order, the answers to the ping, describe and
\* audio-stop messages dispatched on it (pong, info, played); and what every
\* registered browser connection was sent from that hub connection is, one
\* for one and in the same order, the audio-start and audio-chunk messages
\* dispatched on it since the browser registered (audio_start, the chunk's
\* own bytes).
C27_HubOrderKept ==
    \A h \in Hubs :
        LET asked == OfTypes(hubIn[h], {"ping", "describe", "audio-stop"})
            replies == OfTypes(hubOut[h], {"pong", "info", "played"})
        IN  /\ Len(replies) = Len(asked)
            /\ \A i \in DOMAIN asked :
                  replies[i].type = CASE asked[i].type = "ping" -> "pong"
                                      [] asked[i].type = "describe" -> "info"
                                      [] OTHER -> "played"
            /\ \A c \in clients :
                  LET since == SubSeq(hubIn[h], joinedAt[c][h] + 1, Len(hubIn[h]))
                      relayed == OfTypes(since, {"audio-start", "audio-chunk"})
                      got == SelectSeq(clientOut[c], LAMBDA f : f.src = h)
                  IN  /\ Len(got) = Len(relayed)
                      /\ \A i \in DOMAIN relayed :
                            IF relayed[i].type = "audio-start"
                            THEN got[i].type = "audio_start"
                            ELSE got[i].type = "binary" /\ got[i].data = relayed[i].payload

C27_Witness ==
    /\ hubIn[CodecHub] = <<MsgDescribe, MsgChunk(Pcm(1)), MsgStop, MsgPing>>
    /\ hubOut[CodecHub] = <<Satellite, Info, Played, Pong>>
    /\ \E c \in clients : clientOut[c] = <<Binary(Pcm(1), CodecHub)>>

\* ------------------------------------------------------------------ C28
\* the binary frames browser connection c sent while hub connection w was
\* registered (the n-th frame of c is Pcm(n)), in the order c sent them
RECURSIVE MicFramesFor(_, _, _)
MicFramesFor(log, w, n) ==
    IF log = <<>> THEN <<>>
    ELSE IF Head(log).kind # "mic" THEN MicFramesFor(Tail(log), w, n)
    ELSE (IF w \in Head(log).snap THEN <<Pcm(n)>> ELSE <<>>)
         \o MicFramesFor(Tail(log), w, n + 1)

\* the audio bytes of c written to w, and the lengths its headers declare
MicBytesOn(c, w) ==
    LET got == SelectSeq(hubOut[w], LAMBDA m : m.type = "bytes" /\ m.by = c)
    IN  [i \in 1..Len(got) |-> got[i].data]
MicHeadersOn(c, w) ==
    LET got == SelectSeq(hubOut[w], LAMBDA m : m.type = "audio-chunk" /\ m.by = c)
    IN  [i \in 1..Len(got) |-> got[i].payload_length]

\* C28: for a hub connection that is still registered, the audio bytes of a
\* browser connection written to it are the frames that browser sent while it
\* was registered: each once, unchanged, in the browser's order, with a
\* header of the frame's length before each; all of them once the browser's
\* handler is back at its receive loop, a prefix of them while it broadcasts.
C28_MicFramesInOrder ==
    \A c \in Clients : \A w \in ha_writers :
        LET frames == MicFramesFor(bcastLog[c], w, 1)
            lens == [i \in 1..Len(frames) |-> Len(frames[i])]
        IN  /\ IsPrefix(MicBytesOn(c, w), frames)
            /\ IsPrefix(MicHeadersOn(c, w), lens)
            /\ clientPc[c] = "active" =>
                   MicBytesOn(c, w) = frames /\ MicHeadersOn(c, w) = lens

C28_Witness ==
    \E c \in Clients : \E w \in ha_writers :
        /\ clientPc[c] = "active"
        /\ CountKind(bcastLog[c], "mic") = 2
        /\ MicBytesOn(c, w) = <<Pcm(1), Pcm(2)>>
        /\ MicHeadersOn(c, w) = <<1, 2>>
        /\ \E g \in Hubs \ {w} : g \in failedSend

\* --------------------------------------------------- lines of any content
MaxLine == 4

\* bytes of a line: braces, a blank, a field, a payload length, garbage
LineBytes == {LB, RB, SP, "ping", "P1", "x"}

InitScan ==
    /\ sent = <<>>
    /\ stream \in UNION {[1..n -> LineBytes] : n \in 0..MaxLine}
    /\ line = <<>>
    /\ pos = 1
    /\ hubPc = [h \in Hubs |-> "free"]
    /\ hubIn = NoHubIO
    /\ hubOut = NoHubIO
    /\ ha_writers = {}
    /\ client_tasks = {}
    /\ broken = {}
    /\ clients = {}
    /\ clientPc = [c \in Clients |-> "free"]
    /\ clientOut = NoClientIO
    /\ joinedAt = [c \in Clients |-> [h \in Hubs |-> 0]]
    /\ closeCode = [c \in Clients |-> 0]
    /\ auth_token = "none"
    /\ listening = {"wyoming", "ws"}
    /\ InitMic
    /\ InitCtl

SpecScan == InitScan /\ [][NextCodec]_vars

\* ------------------------------------------------------------------ C29
\* C29: whenever the per-line scan is about to run an iteration, its position
\* is inside the line, and the iteration either ends the scan (no object
\* left, or the connection is given up) or leaves the position strictly
\* further on and no further than one past the end of the line: the scan of
\* a line ends after at most one iteration per character.
C29_ScanAdvances ==
    hubPc[CodecHub] = "scan" =>
        LET r == ScanIter(line, pos, stream)
        IN  /\ pos >= 1
            /\ pos <= Len(line)
            /\ r.kind \in {"break", "skip", "fatal", "msg"}
            /\ r.kind \in {"skip", "msg"} => r.pos > pos /\ r.pos <= Len(line) + 1

\* a stray "{" was passed over and the scan is at the object behind it
C29_Witness ==
    /\ hubPc[CodecHub] = "scan"
    /\ line = <<LB, LB, "ping", RB>>
    /\ pos = 2
    /\ hubIn[CodecHub] = <<>>

\* ------------------------------------------------------------------ C30
\* C30: while main has not begun its shutdown, a hub connection's writer is
\* in ha_writers exactly when its handler's task is in client_tasks, and a
\* connection whose handler is at its read loop is in both.
C30_RegistriesAgree ==
    stopPc = "run" =>
        /\ ha_writers = client_tasks
        /\ \A h \in Hubs : hubPc[h] = "readline" => h \in ha_writers

\* ------------------------------------------- connections that come late
\* asyncio.start_server accepts as long as the listener is open: the peer of
\* a connection that has ended connects again, and the name stands for the
\* new connection (registered, handshake written, at its read loop)
HubAcceptAgain(h) ==
    /\ hubPc[h] = "closed"
    /\ h \notin cancelled
    /\ h \notin broken
    /\ "wyoming" \in listening
    /\ hubPc' = [hubPc EXCEPT ![h] = "readline"]
    /\ ha_writers' = ha_writers \cup {h}
    /\ client_tasks' = client_tasks \cup {h}
    /\ hubOut' = [hubOut EXCEPT ![h] = <<Satellite>>]
    /\ UNCHANGED <<ctlVars, codecVars, hubIn, clientVars, envVars, micVars>>

NextLate ==
    \/ \E h \in Hubs : HubAccept(h)
    \/ \E h \in Hubs : HubAcceptAgain(h)
    \/ \E h \in Hubs : HubEOF(h)
    \/ \E c \in Clients : ClientAccept(c)
    \/ \E c \in Clients : ClientClose(c)
    \/ Shutdown
    \/ WsServerClosed
    \/ WsClientsClosed
    \/ \E h \in Hubs : HubCancelled(h)
    \/ \E h \in Hubs : HubTaskExit(h)
    \/ HubTasksDone
    \/ HubTasksTimeout
    \/ HubWritersClosed
    \/ HubWritersTimeout
    \/ HubListenerClosed
    \/ HubListenerTimeout

SpecLate == InitRelay /\ [][NextLate]_vars

\* ------------------------------------------------------------------ C31
\* C31: once WyomingServer.stop has returned, ha_writers and client_tasks are
\* empty and every hub connection that was accepted, whenever it was, has
\* ended: its handler is over and its socket is closed.
C31_StopLeavesNothing ==
    stopPc = "done" =>
        /\ ha_writers = {}
        /\ client_tasks = {}
        /\ \A h \in Hubs : hubPc[h] \in {"free", "closed"}

\* stop() has returned with no wait timed out, and a connection accepted
\* while it waited for the sockets to close is registered and at its read loop
C31_Leak ==
    /\ stopPc = "done"
    /\ \A i \in DOMAIN stopLog : stopLog[i].op # "timeout"
    /\ client_tasks # {}
    /\ \E h \in client_tasks : hubPc[h] = "readline"

====
